---- MODULE Spec2Model ----
(***************************************************************************)
(* Realtime session engine of raspi-voice7: the OpenAI realtime client     *)
(* (src/core/openai_realtime_client.py), the capability executor           *)
(* (src/capabilities/executor.py) and the two coroutines of src/main.py    *)
(* that drive it (main_async and audio_input_loop).                        *)
(*                                                                         *)
(* Time is the wall clock in seconds.  0 stands for Python's None in the   *)
(* timestamp fields and in ws; the clock itself starts at 1.  halfPassed   *)
(* is the one sub-second fact the double-click test needs: at least half   *)
(* a second has gone by since last_button_press_time was stamped.          *)
(* resetCause remembers which statement last set needs_session_reset.      *)
(* One asyncio event loop runs the coroutines: a coroutine action is       *)
(* enabled only while main_async is suspended at an await (LoopFree).      *)
(*                                                                         *)
(* The video call is the second part: VideoCallManager (src/core/webrtc.py)*)
(* with the coroutines of src/main.py that set a call up and tear it down. *)
(* 0 stands for None in pc; peer connections are numbered as they are      *)
(* created and remote ICE candidates as they arrive.  applied, stopCount   *)
(* and closeCount record what was asked of the aiortc primitives, and      *)
(* endCalls counts the invocations of end_call.                            *)
(***************************************************************************)
EXTENDS Integers, Sequences, FiniteSets, TLC

\* ---------------------------------------------------------------- bounds
MaxNow == 72
MaxConns == 3
MaxCalls == 2
MaxInbox == 1
MaxBurst == 46
MaxChunks == MaxBurst + 1
MaxPcs == 2
MaxCands == 3
MaxEnds == 2
MaxSessions == 1
\* the store holds the calls between the device and its peer and at most
\* one call of a second caller
MaxRecords == MaxSessions + 1
MaxSigCands == 2
MaxSamples == 4

\* ------------------------------------------------------ program constants
SESSION_RESET_TIMEOUT == 10
VOICE_MESSAGE_TIMEOUT == 60
MAX_RECONNECT_ATTEMPTS == 5
RECONNECT_DELAY_BASE == 2
BACKOFF_CAP == 60
CHUNK_SIZE == 512
INPUT_SAMPLE_RATE == 48000
DOUBLE_CLICK_THRESHOLD_TENTHS == 5
VIDEOCALL_RING_TIMEOUT == 30

\* tool names the backend may ask for: one of the three slow ones, the one
\* whose result carries start_voice_recording, and a name nobody registered
SlowTools == {"voice_send_photo", "camera_capture", "gmail_send_photo"}
Registered == {"camera_capture", "voice_send"}
ToolNames == {"camera_capture", "voice_send", "no_such_tool"}

\* CapabilityResult messages.  The source strings are Japanese literals:
\* MSG_NOT_FOUND is "dekimasen deshita", MSG_GENERIC is "ima wa dekimasen".
MSG_NOT_FOUND == "cannot_do"
MSG_GENERIC == "cannot_do_now"
MSG_CAPABILITY_OK == "capability_ok_message"

VARIABLES
    running, mainPc, now,
    ws, is_connected, needs_reconnect, reconnect_count, needs_session_reset,
    resetCause, last_response_time, voice_message_mode,
    voice_message_timestamp, delay, nextConn,
    readerPc, awaiting, workers, finished, inbox, nextCall, toolResults,
    inputPc, pressed, is_recording, chunk_count, last_button_press_time,
    halfPassed, music, activity, audioSent,
    pc, nextPc, pcOffered, pcRemote, tracks, is_in_call, pendingIce,
    nextCand, applied, outPos, outTarget, flowPos, flowTarget, flushIdx,
    endPos, endCalls, stopCount, closeCount,
    db, statusLog, nextSession, nextSigCand, pollPc, snapshot,
    current_session_id, last_seen_sessions, last_answer,
    last_caller_candidates, last_callee_candidates,
    pending_incoming_call, accepting,
    incomingFired, answerFired, endedFired, iceFired,
    output_stream, remote_audio, suspended,
    is_paused, current_track, mpv, killSignals, killParity,
    firstSent, candidateStr, resampled, iceDropped, scheduled, dial,
    failures

vars == << running, mainPc, now,
    ws, is_connected, needs_reconnect, reconnect_count, needs_session_reset,
    resetCause, last_response_time, voice_message_mode,
    voice_message_timestamp, delay, nextConn,
    readerPc, awaiting, workers, finished, inbox, nextCall, toolResults,
    inputPc, pressed, is_recording, chunk_count, last_button_press_time,
    halfPassed, music, activity, audioSent,
    pc, nextPc, pcOffered, pcRemote, tracks, is_in_call, pendingIce,
    nextCand, applied, outPos, outTarget, flowPos, flowTarget, flushIdx,
    endPos, endCalls, stopCount, closeCount,
    db, statusLog, nextSession, nextSigCand, pollPc, snapshot,
    current_session_id, last_seen_sessions, last_answer,
    last_caller_candidates, last_callee_candidates,
    pending_incoming_call, accepting,
    incomingFired, answerFired, endedFired, iceFired,
    output_stream, remote_audio, suspended,
    is_paused, current_track, mpv, killSignals, killParity,
    firstSent, candidateStr, resampled, iceDropped, scheduled, dial,
    failures >>

clientVars == << ws, is_connected, needs_reconnect, reconnect_count,
    needs_session_reset, resetCause, last_response_time, voice_message_mode,
    voice_message_timestamp >>
readerVars == << readerPc, awaiting, workers, finished, inbox, nextCall, toolResults >>
inputVars == << inputPc, pressed, is_recording, chunk_count,
    last_button_press_time, halfPassed, music, activity, audioSent >>
managerVars == << pc, nextPc, pcOffered, pcRemote, tracks, is_in_call,
    pendingIce, nextCand, applied, outPos, outTarget, flowPos, flowTarget,
    flushIdx,
    endPos, endCalls, stopCount, closeCount >>
signalVars == << db, statusLog, nextSession, nextSigCand, pollPc, snapshot,
    current_session_id, last_seen_sessions, last_answer,
    last_caller_candidates, last_callee_candidates,
    pending_incoming_call, accepting,
    incomingFired, answerFired, endedFired, iceFired >>
\* who has the speaker open: the conversation stream of AudioHandler and
\* the stream of _play_remote_audio (the music process is music);
\* suspended records that accept_incoming_call closed the conversation
\* stream and nothing has opened it since
outputVars == << output_stream, remote_audio, suspended >>
\* the module state of music.py next to the handle (music is
\* "_player_process is not None"): _is_paused, _current_track; mpv is the
\* player process as the kernel sees it; killSignals are the signals the
\* last _kill_player that held a player sent, killParity flips at each
playerVars == << is_paused, current_track, mpv, killSignals, killParity >>
\* everything outside the session that an action of the session leaves
\* alone; firstSent is, for each connection, the first message the client
\* handed to its socket ("none" while it has sent nothing)
otherVars == << managerVars, signalVars, outputVars, playerVars >>
\* iceDropped: the entries of a candidate list for which the callback of
\* main.py returned without handing the candidate to the call manager
\* scheduled: the runs of accept_incoming_call that on_incoming_call has
\* handed to the event loop and that have not started, each with the
\* session of its event
\* dial: what the videocall_start tool has reported (none, ok, fail), and
\* whether a _start_outgoing_call it handed to the event loop has not
\* started yet
\* failures: the runs of accept_incoming_call and _start_outgoing_call
\* that returned False because a step of the setup failed
lateVars == << iceDropped, scheduled, dial, failures >>
callVars == << otherVars, firstSent, candidateStr, resampled, lateVars >>

\* the records under /videocall and what one of them holds
Sessions == 1..MaxRecords
SigCands == 1..MaxSigCands
NoRecord == [caller |-> "", callee |-> "", status |-> "", offer |-> FALSE,
             answer |-> FALSE, caller_candidates |-> {},
             callee_candidates |-> {}, created_at |-> 0]

NoCall == [call_id |-> 0, name |-> "none", conn |-> 0, orphan |-> FALSE]

Min(a, b) == IF a < b THEN a ELSE b

RECURSIVE Power(_, _)
Power(b, e) == IF e = 0 THEN 1 ELSE b * Power(b, e - 1)

\* ------------------------------------------------------- resample_audio
\* int16 samples an audio buffer may hold, the extremes among them
SampleValues == { -32768, -3, -1, 0, 1, 2, 32767 }
SampleSeqs == UNION { [1..n -> SampleValues] : n \in 0..MaxSamples }

\* the rates of the device and the backend (48000 and 24000 in Config) and
\* two lower targets; every pair is equal or an integer ratio above 1
RatePairs == { << 48000, 48000 >>, << 24000, 24000 >>, << 48000, 24000 >>,
    << 48000, 16000 >>, << 48000, 12000 >> }

\* astype(np.int16) of num / den, den > 0: the fraction is cut off
FloorDiv_mut(num, den) == (num - (num % den)) \div den
TruncDiv(num, den) ==
    IF num >= 0 THEN num \div den ELSE 0 - ((0 - num) \div den)

RECURSIVE BlockSum(_, _, _)
BlockSum(data, first, count) ==
    IF count = 0 THEN 0
    ELSE data[first] + BlockSum(data, first + 1, count - 1)

\* resample_audio: the input itself for equal rates; for an integer ratio
\* above 1 the array is trimmed to whole blocks of factor samples and each
\* block is replaced by its float32 mean cast to int16.  The sum of a
\* block of int16 values is exact in float32 for these factors.  (Other
\* ratios take the np.interp branch, which no pair of RatePairs reaches.)
resample_audio(data, from_rate, to_rate) ==
    CASE from_rate = to_rate -> data
      [] from_rate # to_rate /\ from_rate % to_rate = 0
            /\ from_rate \div to_rate > 1 ->
            LET factor == from_rate \div to_rate
                blocks == Len(data) \div factor
            IN  [i \in 1..blocks |->
                    TruncDiv(BlockSum(data, (i - 1) * factor + 1, factor),
                             factor)]

NotResampled == [data |-> << >>, from_rate |-> 0, to_rate |-> 0,
                 out |-> << >>]

\* ------------------------------------------------------------------ Init
Init ==
    /\ running = TRUE
    /\ mainPc = "check"
    /\ now = 1
    /\ ws = 0
    /\ is_connected = FALSE
    /\ needs_reconnect = FALSE
    /\ reconnect_count = 0
    /\ needs_session_reset = FALSE
    /\ resetCause = "none"
    /\ last_response_time = 0
    /\ voice_message_mode = FALSE
    /\ voice_message_timestamp = 0
    /\ delay = 0
    /\ nextConn = 1
    /\ readerPc = "none"
    /\ awaiting = NoCall
    /\ workers = {}
    /\ finished = {}
    /\ inbox = << >>
    /\ nextCall = 1
    /\ toolResults = << >>
    /\ inputPc = "none"
    /\ pressed = FALSE
    /\ is_recording = FALSE
    /\ chunk_count = 0
    /\ last_button_press_time = 0
    /\ halfPassed = FALSE
    /\ music = FALSE
    /\ activity = [open |-> FALSE, conn |-> 0]
    /\ audioSent = {}
    /\ pc = 0
    /\ nextPc = 1
    /\ pcOffered = {}
    /\ pcRemote = {}
    /\ tracks = FALSE
    /\ is_in_call = FALSE
    /\ pendingIce = << >>
    /\ nextCand = 1
    /\ applied = << >>
    /\ outPos = "none"
    /\ outTarget = 0
    /\ flowPos = "none"
    /\ flowTarget = 0
    /\ flushIdx = 0
    /\ endPos = "idle"
    /\ endCalls = 0
    /\ stopCount = 0
    /\ closeCount = 0
    /\ db = [s \in Sessions |-> NoRecord]
    /\ statusLog = [s \in Sessions |-> << >>]
    /\ nextSession = 1
    /\ nextSigCand = 1
    /\ pollPc = "sleep"
    /\ snapshot = [s \in Sessions |-> NoRecord]
    /\ current_session_id = 0
    /\ last_seen_sessions = {}
    /\ last_answer = {}
    /\ last_caller_candidates = [s \in Sessions |-> {}]
    /\ last_callee_candidates = [s \in Sessions |-> {}]
    /\ pending_incoming_call = 0
    /\ accepting = 0
    /\ incomingFired = [s \in Sessions |-> 0]
    /\ answerFired = [s \in Sessions |-> 0]
    /\ endedFired = [s \in Sessions |-> 0]
    /\ iceFired = [c \in SigCands |-> 0]
    /\ output_stream = TRUE
    /\ remote_audio = FALSE
    /\ suspended = FALSE
    /\ is_paused = FALSE
    /\ current_track = FALSE
    /\ mpv = "none"
    /\ killSignals = << >>
    /\ killParity = 0
    /\ firstSent = [c \in 1..MaxConns |-> "none"]
    /\ candidateStr = [c \in 1..MaxCands |-> << >>]
    /\ resampled = NotResampled
    /\ iceDropped = {}
    /\ scheduled = << >>
    /\ dial = [reported |-> "none", queued |-> FALSE]
    /\ failures = 0

\* main_async is suspended at an await, so the event loop can run the
\* reader task and the audio input task
LoopFree == mainPc \in {"check", "reset_disconnect", "reset_connect",
                        "reconnect_sleep", "connecting"}

\* ------------------------------------------------- OpenAIRealtimeClient
\* check_voice_message_timeout: the mode has run out when it is on, its
\* timestamp is set and strictly more than VOICE_MESSAGE_TIMEOUT has passed
VoiceMessageExpired_mut ==
    /\ voice_message_mode
    /\ voice_message_timestamp # 0
    /\ now - voice_message_timestamp >= VOICE_MESSAGE_TIMEOUT
VoiceMessageExpired ==
    /\ voice_message_mode
    /\ voice_message_timestamp # 0
    /\ now - voice_message_timestamp > VOICE_MESSAGE_TIMEOUT

\* value returned by check_voice_message_timeout()
CheckVoiceMessageTimeout_mut == FALSE
CheckVoiceMessageTimeout ==
    IF VoiceMessageExpired THEN FALSE ELSE voice_message_mode

\* fields after check_voice_message_timeout() when called is TRUE
ModeAfterCheck(called) ==
    IF called /\ VoiceMessageExpired THEN FALSE ELSE voice_message_mode
StampAfterCheck(called) ==
    IF called /\ VoiceMessageExpired THEN 0 ELSE voice_message_timestamp

\* reconnect(): the test after the increment that gives up
ReconnectExhausted_mut(count) == count > MAX_RECONNECT_ATTEMPTS + 1
ReconnectExhausted(count) == count > MAX_RECONNECT_ATTEMPTS

\* reconnect(): delay = min(RECONNECT_DELAY_BASE ** reconnect_count, 60)
BackoffDelay_mut(count) == Min(RECONNECT_DELAY_BASE * count, BACKOFF_CAP)
BackoffDelay(count) == Min(Power(RECONNECT_DELAY_BASE, count), BACKOFF_CAP)

\* main_async: elapsed >= Config.SESSION_RESET_TIMEOUT
IdleExpired_mut(elapsed) == elapsed > SESSION_RESET_TIMEOUT
IdleExpired(elapsed) == elapsed >= SESSION_RESET_TIMEOUT

\* disconnect(): only a client that holds a socket is marked disconnected
WsAfterDisconnect == 0
ConnectedAfterDisconnect == IF ws # 0 THEN FALSE ELSE is_connected

\* reset_session()/reconnect(): "if not voice_message_mode: clear" leaves an
\* active mode alone and rewrites an inactive one
ModeAfterReopen_mut == FALSE
ModeAfterReopen == IF ~voice_message_mode THEN FALSE ELSE voice_message_mode
StampAfterReopen == IF ~voice_message_mode THEN 0 ELSE voice_message_timestamp

\* connect() succeeded: a fresh socket, is_connected, the session.update
\* handshake; the new socket has nothing queued
\* _send_event on socket c: the first message of a connection is kept
FirstAfter(c, kind) ==
    IF firstSent[c] = "none" THEN [firstSent EXCEPT ![c] = kind] ELSE firstSent

\* a send_* method of the client: nothing without a connected socket
FirstAfterSend(kind) ==
    IF ~is_connected \/ ws = 0 THEN firstSent ELSE FirstAfter(ws, kind)

\* connect(): await self._send_event("session.update", ...) on the socket
\* just opened
HandshakeSent_mut(c) == firstSent
HandshakeSent(c) == FirstAfter(c, "session.update")

OpenTransport ==
    /\ nextConn <= MaxConns
    /\ ws' = nextConn
    /\ nextConn' = nextConn + 1
    /\ is_connected' = TRUE
    /\ inbox' = << >>
    /\ UNCHANGED << candidateStr, resampled, lateVars >>
    /\ firstSent' = HandshakeSent(nextConn)

\* ------------------------------------------------ CapabilityExecutor
Outcomes == {"ok", "raise"}

\* execute(name, arguments): unknown name, handler raised, handler returned
\* (a handler that returns its own failure result is an "ok" return here)
ExecuteResult(name, outcome) ==
    IF name \notin Registered
    THEN [success |-> FALSE, message |-> MSG_NOT_FOUND, flag |-> FALSE]
    ELSE IF outcome = "raise"
    THEN [success |-> FALSE, message |-> MSG_GENERIC, flag |-> FALSE]
    ELSE [success |-> TRUE, message |-> MSG_CAPABILITY_OK,
          flag |-> (name = "voice_send")]

\* whether an exception leaves execute(): it never does (except Exception)
ExecuteRaises_mut(name, outcome) == outcome = "raise"
ExecuteRaises(name, outcome) == FALSE

\* ------------------------------------------------------ inbound reader
\* events the backend puts on the socket
Event(type, call_id, name) == [type |-> type, call_id |-> call_id, name |-> name]

\* the call_id put into the function_call_output item
ToolResponseId_mut(call) == awaiting.call_id
ToolResponseId(call) == call.call_id

\* send_tool_response(call_id, result.message): nothing when disconnected.
\* Each entry of toolResults is one function_call_output item handed to the
\* socket: the call_id in it, the request (req) whose execution produced
\* the message, whether the handler had raised, and whether the socket is
\* the one the request came in on.
ToolResultsAfterSend(call, outcome) ==
    IF ~is_connected \/ ws = 0
    THEN toolResults
    ELSE Append(toolResults,
                [call_id |-> ToolResponseId(call),
                 req |-> call.call_id,
                 raised |-> (outcome = "raise"),
                 message |-> ExecuteResult(call.name, outcome).message,
                 sameConn |-> (ws = call.conn)])

\* receive_messages: reconnect_count = 0 comes after _handle_event returned
CountAfterEvent_mut(handled, count) == 0
CountAfterEvent(handled, count) == IF handled THEN 0 ELSE count

\* the reader awaits one thing at a time: ws.recv() or the handler
ReaderCanReceive_mut == readerPc \in {"recv", "tool"}
ReaderCanReceive == readerPc = "recv"

\* a cancelled reader never reaches send_tool_response
DeliverResult_mut(w) == TRUE
DeliverResult(w) == ~w.orphan

\* lines 276-282 of _handle_event once the executor has returned
FinishToolCall(call, outcome) ==
    LET res == ExecuteResult(call.name, outcome)
    IN /\ voice_message_mode' = (IF res.flag THEN TRUE ELSE voice_message_mode)
       /\ voice_message_timestamp' =
              (IF res.flag THEN now ELSE voice_message_timestamp)
       /\ toolResults' = ToolResultsAfterSend(call, outcome)
       /\ UNCHANGED << candidateStr, resampled, lateVars >>
       /\ firstSent' = FirstAfterSend("function_call_output")

\* the reader dies in the outer "except Exception"
ReaderFails ==
    /\ is_connected' = FALSE
    /\ needs_reconnect' = TRUE
    /\ readerPc' = "done"

\* ws.recv() raised ConnectionClosed
RecvClosed ==
    /\ LoopFree /\ ReaderCanReceive /\ is_connected /\ ws # 0
    /\ inbox # << >> /\ Head(inbox).type = "closed"
    /\ inbox' = Tail(inbox)
    /\ ReaderFails
    /\ UNCHANGED << running, mainPc, now, ws, reconnect_count,
                    needs_session_reset, resetCause, last_response_time,
                    voice_message_mode, voice_message_timestamp, delay,
                    nextConn, awaiting, workers, finished, nextCall,
                    toolResults >>
    /\ UNCHANGED inputVars
    /\ UNCHANGED callVars

\* json.loads or _handle_event raised: the count is not reset
RecvMalformed ==
    /\ LoopFree /\ ReaderCanReceive /\ is_connected /\ ws # 0
    /\ inbox # << >> /\ Head(inbox).type = "malformed"
    /\ inbox' = Tail(inbox)
    /\ ReaderFails
    /\ reconnect_count' = CountAfterEvent(FALSE, reconnect_count)
    /\ UNCHANGED << running, mainPc, now, ws, needs_session_reset, resetCause,
                    last_response_time, voice_message_mode,
                    voice_message_timestamp, delay, nextConn, awaiting,
                    workers, finished, nextCall, toolResults >>
    /\ UNCHANGED inputVars
    /\ UNCHANGED callVars

\* audio delta, transcript, session.* and the other events without effect
\* on the session fields; response.done records the time
RecvPlain ==
    /\ LoopFree /\ ReaderCanReceive /\ is_connected /\ ws # 0
    /\ inbox # << >> /\ Head(inbox).type \in {"other", "response.done"}
    /\ inbox' = Tail(inbox)
    /\ last_response_time' = IF Head(inbox).type = "response.done"
                             THEN now ELSE last_response_time
    /\ reconnect_count' = CountAfterEvent(TRUE, reconnect_count)
    /\ UNCHANGED << running, mainPc, now, ws, is_connected, needs_reconnect,
                    needs_session_reset, resetCause, voice_message_mode,
                    voice_message_timestamp, delay, nextConn, readerPc,
                    awaiting, workers, finished, nextCall, toolResults >>
    /\ UNCHANGED inputVars
    /\ UNCHANGED callVars

\* response.audio.delta: play_audio_chunk writes the chunk to the output
\* stream when there is one and drops it without a word when there is
\* none; no field of the session changes either way
RecvAudioDelta ==
    /\ LoopFree /\ ReaderCanReceive /\ is_connected /\ ws # 0
    /\ inbox # << >> /\ Head(inbox).type = "audio.delta"
    /\ inbox' = Tail(inbox)
    /\ reconnect_count' = CountAfterEvent(TRUE, reconnect_count)
    /\ UNCHANGED << running, mainPc, now, ws, is_connected, needs_reconnect,
                    needs_session_reset, resetCause, last_response_time,
                    voice_message_mode, voice_message_timestamp, delay,
                    nextConn, readerPc, awaiting, workers, finished,
                    nextCall, toolResults >>
    /\ UNCHANGED inputVars
    /\ UNCHANGED callVars

\* response.function_call_arguments.done for a capability run inline
RecvToolInline ==
    /\ LoopFree /\ ReaderCanReceive /\ is_connected /\ ws # 0
    /\ inbox # << >> /\ Head(inbox).type = "function_call"
    /\ Head(inbox).name \notin SlowTools
    /\ inbox' = Tail(inbox)
    /\ LET call == [call_id |-> Head(inbox).call_id, name |-> Head(inbox).name,
                    conn |-> ws, orphan |-> FALSE]
       IN \E outcome \in Outcomes :
            /\ (call.name \notin Registered => outcome = "ok")
            /\ IF ExecuteRaises(call.name, outcome)
               THEN /\ ReaderFails
                    /\ reconnect_count' = CountAfterEvent(FALSE, reconnect_count)
                    /\ UNCHANGED << voice_message_mode, firstSent, candidateStr, resampled, lateVars,
                                    voice_message_timestamp, toolResults >>
               ELSE /\ FinishToolCall(call, outcome)
                    /\ reconnect_count' = CountAfterEvent(TRUE, reconnect_count)
                    /\ UNCHANGED << is_connected, needs_reconnect, readerPc >>
    /\ UNCHANGED << running, mainPc, now, ws, needs_session_reset, resetCause,
                    last_response_time, delay, nextConn, awaiting, workers,
                    finished, nextCall >>
    /\ UNCHANGED inputVars
    /\ UNCHANGED otherVars

\* the same event for a slow capability: loop.run_in_executor, and the
\* reader coroutine waits for the future
RecvToolSlow ==
    /\ LoopFree /\ ReaderCanReceive /\ is_connected /\ ws # 0
    /\ inbox # << >> /\ Head(inbox).type = "function_call"
    /\ Head(inbox).name \in SlowTools
    /\ inbox' = Tail(inbox)
    /\ LET call == [call_id |-> Head(inbox).call_id, name |-> Head(inbox).name,
                    conn |-> ws, orphan |-> FALSE]
       IN /\ awaiting' = call
          /\ workers' = workers \cup {call}
    /\ readerPc' = "tool"
    /\ UNCHANGED << running, mainPc, now, delay, nextConn, finished,
                    nextCall, toolResults >>
    /\ UNCHANGED clientVars
    /\ UNCHANGED inputVars
    /\ UNCHANGED callVars

\* the executor thread returns.  The waiting reader goes on with lines
\* 276-282 and its loop; a reader cancelled in the meantime does not.
WorkerReturns ==
    /\ LoopFree
    /\ \E w \in workers, outcome \in Outcomes :
         /\ workers' = workers \ {w}
         /\ finished' = finished \cup {w}
         /\ IF DeliverResult(w)
            THEN IF ExecuteRaises(w.name, outcome)
                 THEN /\ ReaderFails
                      /\ reconnect_count' = CountAfterEvent(FALSE, reconnect_count)
                      /\ awaiting' = NoCall
                      /\ UNCHANGED << voice_message_mode, firstSent, candidateStr, resampled, lateVars,
                                      voice_message_timestamp, toolResults >>
                 ELSE /\ FinishToolCall(w, outcome)
                      /\ reconnect_count' = CountAfterEvent(TRUE, reconnect_count)
                      /\ readerPc' = IF awaiting = w THEN "recv" ELSE readerPc
                      /\ awaiting' = IF awaiting = w THEN NoCall ELSE awaiting
                      /\ UNCHANGED << is_connected, needs_reconnect >>
            ELSE UNCHANGED << voice_message_mode, voice_message_timestamp, firstSent, candidateStr, resampled, lateVars,
                              toolResults, reconnect_count, readerPc,
                              awaiting, is_connected, needs_reconnect >>
    /\ UNCHANGED << running, mainPc, now, ws, needs_session_reset, resetCause,
                    last_response_time, delay, nextConn, inbox, nextCall >>
    /\ UNCHANGED inputVars
    /\ UNCHANGED otherVars

\* cancelling the reader task leaves the thread of its slow call running
Orphaned(running_) ==
    { IF w = awaiting THEN [w EXCEPT !.orphan = TRUE] ELSE w : w \in running_ }

\* ------------------------------------------------------------- backend
BackendEvents(types, names) ==
    { Event(t, 0, "none") : t \in types }
    \cup { Event("function_call", nextCall, n) : n \in names }

\* the backend puts one event on the open socket: an event of one of the
\* given types or a call of one of the named tools; after a close frame
\* nothing follows
BackendSends(types, names) ==
    /\ is_connected /\ ws # 0
    /\ Len(inbox) < MaxInbox
    /\ \A i \in 1..Len(inbox) : inbox[i].type # "closed"
    /\ \E e \in BackendEvents(types, names) :
         /\ (e.type = "function_call" => nextCall <= MaxCalls)
         /\ inbox' = Append(inbox, e)
         /\ nextCall' = IF e.type = "function_call" THEN nextCall + 1
                        ELSE nextCall
    /\ UNCHANGED << running, mainPc, now, delay, nextConn, readerPc,
                    awaiting, workers, finished, toolResults >>
    /\ UNCHANGED clientVars
    /\ UNCHANGED inputVars
    /\ UNCHANGED callVars

\* the spoken reply to a turn: audio deltas once the recording made on
\* this connection has been closed with activityEnd
BackendRepliesAudio ==
    /\ activity.conn = ws /\ ~activity.open /\ ~is_recording
    /\ BackendSends({"audio.delta"}, {})

BackendSendsPlain ==
    BackendSends({"other", "response.done", "malformed", "closed"}, {})
BackendSendsTurn == BackendSends({"response.done"}, {"voice_send"})
BackendSendsTurnOrClose ==
    BackendSends({"response.done", "closed"}, {"voice_send"})
BackendSendsTools == BackendSends({"response.done", "closed"}, ToolNames)
BackendSendsAny ==
    BackendSends({"other", "response.done", "malformed", "closed"}, ToolNames)

\* ------------------------------------------------------------- music.py
\* poll() on the handle is not None: the process has ended, and an earlier
\* poll() may have reaped it
PlayerGone == mpv \in {"exited", "reaped"}

\* is_music_active(): a handle whose process has not ended (a handle whose
\* process has ended is cleared on the way)
is_music_active == music /\ ~PlayerGone

\* wait(timeout=2) after the signals: a process that has ended is waited
\* for at once, a process still stopped cannot act on SIGTERM, a running
\* one may or may not end in time
WaitOutcomes ==
    IF PlayerGone THEN {TRUE}
    ELSE IF mpv = "stopped" /\ ~is_paused THEN {FALSE}
    ELSE BOOLEAN

\* what _kill_player sends to the process group of the player it holds:
\* SIGCONT first when _is_paused, SIGTERM, and SIGKILL when the wait timed
\* out; os.getpgid raises for a reaped pid and the except clauses swallow it
KillSent_mut(exits) ==
    (IF is_paused THEN << >> ELSE <<"SIGCONT">>) \o <<"SIGTERM", "SIGKILL">>
KillSent(exits) ==
    IF mpv = "reaped" THEN << >>
    ELSE (IF is_paused THEN <<"SIGCONT">> ELSE << >>) \o <<"SIGTERM">>
         \o (IF exits THEN << >> ELSE <<"SIGKILL">>)

KillSignalsAfter(exits) == IF music THEN KillSent(exits) ELSE killSignals
KillParityAfter == IF music THEN 1 - killParity ELSE killParity

\* _kill_player() under _player_lock: with a handle, signal, wait, clear the
\* handle, the track and the paused flag; without one, nothing
KillPlayer(exits) ==
    /\ exits \in WaitOutcomes
    /\ music' = FALSE
    /\ current_track' = IF music THEN FALSE ELSE current_track
    /\ is_paused' = IF music THEN FALSE ELSE is_paused
    /\ mpv' = IF music THEN "none" ELSE mpv
    /\ killSignals' = KillSignalsAfter(exits)
    /\ killParity' = KillParityAfter

\* pause_music_for_conversation() on a live player: SIGSTOP, the handle
\* stays
stop_music_player_mut(exits) ==
    /\ exits \in WaitOutcomes
    /\ mpv' = "stopped"
    /\ is_paused' = TRUE
    /\ UNCHANGED << music, current_track, killSignals, killParity >>
\* stop_music_player()
stop_music_player(exits) == KillPlayer(exits)

\* ------------------------------------------------------------ main_async
\* top of "while running": the idle check (main.py 852-860)
IdleCheck ==
    /\ mainPc = "check"
    /\ running
    /\ LET called == last_response_time # 0 /\ is_connected
           fire == /\ called
                   /\ ~CheckVoiceMessageTimeout
                   /\ IdleExpired(now - last_response_time)
       IN /\ voice_message_mode' = ModeAfterCheck(called)
          /\ voice_message_timestamp' = StampAfterCheck(called)
          /\ needs_session_reset' = (needs_session_reset \/ fire)
          /\ resetCause' = IF fire THEN "idle" ELSE resetCause
          /\ last_response_time' = IF fire THEN 0 ELSE last_response_time
    /\ mainPc' = "dispatch"
    /\ UNCHANGED << running, now, ws, is_connected, needs_reconnect,
                    reconnect_count, delay, nextConn >>
    /\ UNCHANGED readerVars
    /\ UNCHANGED inputVars
    /\ UNCHANGED callVars

\* receive_task.cancel() and await receive_task, when the task is not done
CancelReader_mut(p) == p
CancelReader(p) == IF p \in {"recv", "tool"} THEN "done" ELSE p

\* session reset branch (main.py 862-868): clear the flag, cancel the reader
ResetBegin ==
    /\ mainPc = "dispatch"
    /\ needs_session_reset /\ is_connected
    /\ needs_session_reset' = FALSE
    /\ resetCause' = "none"
    /\ readerPc' = CancelReader(readerPc)
    /\ awaiting' = NoCall
    /\ workers' = Orphaned(workers)
    /\ mainPc' = "reset_disconnect"
    /\ UNCHANGED << running, now, ws, is_connected, needs_reconnect,
                    reconnect_count, last_response_time, voice_message_mode,
                    voice_message_timestamp, delay, nextConn,
                    finished, inbox, nextCall, toolResults >>
    /\ UNCHANGED inputVars
    /\ UNCHANGED callVars

\* reset_session(): await self.disconnect()
ResetDisconnect ==
    /\ mainPc = "reset_disconnect"
    /\ ws' = WsAfterDisconnect
    /\ is_connected' = ConnectedAfterDisconnect
    /\ voice_message_mode' = ModeAfterReopen
    /\ voice_message_timestamp' = StampAfterReopen
    /\ mainPc' = "reset_connect"
    /\ UNCHANGED << running, now, needs_reconnect, reconnect_count,
                    needs_session_reset, resetCause, last_response_time, delay, nextConn >>
    /\ UNCHANGED readerVars
    /\ UNCHANGED inputVars
    /\ UNCHANGED callVars

\* reset_session(): await self.connect(), then main_async starts a new
\* reader task (main.py 873-874)
ResetConnectOk ==
    /\ mainPc = "reset_connect"
    /\ OpenTransport
    /\ readerPc' = "recv"
    /\ mainPc' = "check"
    /\ UNCHANGED << running, now, needs_reconnect, reconnect_count,
                    needs_session_reset, resetCause, last_response_time,
                    voice_message_mode, voice_message_timestamp, delay,
                    awaiting, workers, finished, nextCall, toolResults >>
    /\ UNCHANGED inputVars
    /\ UNCHANGED otherVars

\* connect() raised inside reset_session(): needs_reconnect, and the reader
\* task that main_async creates leaves its loop at once (not connected)
ResetConnectFail ==
    /\ mainPc = "reset_connect"
    /\ needs_reconnect' = TRUE
    /\ readerPc' = "done"
    /\ mainPc' = "dispatch"
    /\ UNCHANGED << running, now, ws, is_connected, reconnect_count,
                    needs_session_reset, resetCause, last_response_time,
                    voice_message_mode, voice_message_timestamp, delay,
                    nextConn, awaiting, workers, finished, inbox, nextCall,
                    toolResults >>
    /\ UNCHANGED inputVars
    /\ UNCHANGED callVars

\* reconnect() up to its sleep: increment, give up or compute the delay
ReconnectBegin ==
    /\ mainPc = "dispatch"
    /\ ~is_connected /\ needs_reconnect
    /\ reconnect_count' = reconnect_count + 1
    /\ IF ReconnectExhausted(reconnect_count')
       THEN /\ running' = (IF reconnect_count' > MAX_RECONNECT_ATTEMPTS
                           THEN FALSE ELSE running)
            /\ mainPc' = "check"
            /\ delay' = delay
       ELSE /\ delay' = BackoffDelay(reconnect_count')
            /\ mainPc' = "reconnect_sleep"
            /\ running' = running
    /\ UNCHANGED << now, ws, is_connected, needs_reconnect,
                    needs_session_reset, resetCause, last_response_time,
                    voice_message_mode, voice_message_timestamp, nextConn >>
    /\ UNCHANGED readerVars
    /\ UNCHANGED inputVars
    /\ UNCHANGED callVars

\* tasks main_async (re)creates after a successful connect (main.py 891-896)
StartTasks ==
    /\ readerPc' = IF readerPc \in {"none", "done"} THEN "recv" ELSE readerPc
    /\ inputPc' = IF inputPc \in {"none", "dead"} THEN "loop" ELSE inputPc
    /\ chunk_count' = IF inputPc \in {"none", "dead"} THEN 0 ELSE chunk_count
    /\ halfPassed' = IF inputPc \in {"none", "dead"} THEN TRUE ELSE halfPassed

\* reconnect() after the sleep: disconnect, clear needs_reconnect, connect
ReconnectOpenOk ==
    /\ mainPc = "reconnect_sleep"
    /\ needs_reconnect' = FALSE
    /\ voice_message_mode' = ModeAfterReopen
    /\ voice_message_timestamp' = StampAfterReopen
    /\ OpenTransport
    /\ StartTasks
    /\ mainPc' = "check"
    /\ UNCHANGED << running, now, reconnect_count, needs_session_reset, resetCause,
                    last_response_time, delay, awaiting, workers, finished, nextCall,
                    toolResults, pressed, is_recording,
                    last_button_press_time, music, activity, audioSent >>
    /\ UNCHANGED otherVars

ReconnectOpenFail ==
    /\ mainPc = "reconnect_sleep"
    /\ ws' = WsAfterDisconnect
    /\ is_connected' = ConnectedAfterDisconnect
    /\ needs_reconnect' = TRUE
    /\ voice_message_mode' = ModeAfterReopen
    /\ voice_message_timestamp' = StampAfterReopen
    /\ running' = (IF reconnect_count > MAX_RECONNECT_ATTEMPTS
                   THEN FALSE ELSE running)
    /\ mainPc' = "check"
    /\ UNCHANGED << now, reconnect_count, needs_session_reset, resetCause,
                    last_response_time, delay, nextConn >>
    /\ UNCHANGED readerVars
    /\ UNCHANGED inputVars
    /\ UNCHANGED callVars

\* first connection, or any connection lost without needs_reconnect
ConnectBegin ==
    /\ mainPc = "dispatch"
    /\ ~is_connected /\ ~needs_reconnect
    /\ mainPc' = "connecting"
    /\ UNCHANGED << running, now, delay, nextConn >>
    /\ UNCHANGED clientVars
    /\ UNCHANGED readerVars
    /\ UNCHANGED inputVars
    /\ UNCHANGED callVars

ConnectOk ==
    /\ mainPc = "connecting"
    /\ OpenTransport
    /\ StartTasks
    /\ mainPc' = "check"
    /\ UNCHANGED << running, now, needs_reconnect, reconnect_count,
                    needs_session_reset, resetCause, last_response_time,
                    voice_message_mode, voice_message_timestamp, delay,
                    awaiting, workers, finished, nextCall, toolResults, pressed,
                    is_recording, last_button_press_time, music, activity,
                    audioSent >>
    /\ UNCHANGED otherVars

\* connect() raised: sleep 5 s and try again on the next iteration
ConnectFail ==
    /\ mainPc = "connecting"
    /\ mainPc' = "check"
    /\ UNCHANGED << running, now, delay, nextConn >>
    /\ UNCHANGED clientVars
    /\ UNCHANGED readerVars
    /\ UNCHANGED inputVars
    /\ UNCHANGED callVars

\* connected and nothing to do: await asyncio.sleep(0.1)
TickSleep ==
    /\ mainPc = "dispatch"
    /\ is_connected /\ ~needs_session_reset
    /\ mainPc' = "check"
    /\ UNCHANGED << running, now, delay, nextConn >>
    /\ UNCHANGED clientVars
    /\ UNCHANGED readerVars
    /\ UNCHANGED inputVars
    /\ UNCHANGED callVars

\* "while running" fails: cancel both tasks, disconnect, clean up
MainExit ==
    /\ mainPc = "check"
    /\ ~running
    /\ readerPc' = IF readerPc = "none" THEN "none" ELSE "done"
    /\ awaiting' = NoCall
    /\ workers' = Orphaned(workers)
    /\ inputPc' = IF inputPc = "none" THEN "none" ELSE "done"
    /\ is_recording' = is_recording
    /\ ws' = WsAfterDisconnect
    /\ is_connected' = ConnectedAfterDisconnect
    /\ \E exits \in BOOLEAN : stop_music_player(exits)
    /\ mainPc' = "done"
    /\ UNCHANGED << running, now, needs_reconnect, reconnect_count,
                    needs_session_reset, resetCause, last_response_time,
                    voice_message_mode, voice_message_timestamp, delay,
                    nextConn, finished, inbox, nextCall, toolResults,
                    pressed, chunk_count, last_button_press_time, halfPassed, activity,
                    audioSent >>
    /\ UNCHANGED << managerVars, signalVars, outputVars >>
    /\ UNCHANGED << firstSent, candidateStr, resampled, lateVars >>

\* signal_handler: SIGINT/SIGTERM
SignalHandler ==
    /\ running
    /\ mainPc # "done"
    /\ running' = FALSE
    /\ UNCHANGED << mainPc, now, delay, nextConn >>
    /\ UNCHANGED clientVars
    /\ UNCHANGED readerVars
    /\ UNCHANGED inputVars
    /\ UNCHANGED callVars

\* the instants at which the clock is looked at: the start, one idle
\* timeout later, exactly and just over one voice-message timeout later,
\* and a last one
TimePoints ==
    {1, 1 + SESSION_RESET_TIMEOUT, 1 + VOICE_MESSAGE_TIMEOUT,
     2 + VOICE_MESSAGE_TIMEOUT, MaxNow}

\* the wall clock moves on, by a second at least
Advance ==
    /\ \E t \in TimePoints : t > now /\ now' = t
    /\ halfPassed' = TRUE
    /\ UNCHANGED << running, mainPc, delay, nextConn, inputPc, pressed,
                    is_recording, chunk_count, last_button_press_time, music,
                    activity, audioSent >>
    /\ UNCHANGED clientVars
    /\ UNCHANGED readerVars
    /\ UNCHANGED callVars

\* ------------------------------------------------------ audio_input_loop
\* current_time - last_button_press_time < DOUBLE_CLICK_THRESHOLD (0.5 s)
DoubleClick ==
    /\ 10 * (now - last_button_press_time) < DOUBLE_CLICK_THRESHOLD_TENTHS
    /\ ~halfPassed

\* duration = chunk_count * CHUNK_SIZE / INPUT_SAMPLE_RATE; duration < 0.5
TooShort(count) == 2 * count * CHUNK_SIZE < INPUT_SAMPLE_RATE

\* send_activity_start(): nothing goes on the wire; the call opens the
\* bracket on the connection the client holds
ActivityAfterStart == [open |-> TRUE, conn |-> IF is_connected THEN ws ELSE 0]

\* send_audio_chunk(): dropped when disconnected, else appended on ws
AudioAfterChunk(act) ==
    IF ~is_connected \/ ws = 0
    THEN audioSent
    ELSE audioSent \cup {[conn |-> ws,
                          bracket |-> IF act.open THEN act.conn ELSE 0]}

\* read_audio_chunk() and send_audio_chunk(): k = 0 is a read that gave
\* nothing; k > 1 stands for k iterations in a row
ChunkSizes == {0, 1, MaxBurst}
\* the counts the model follows: none, one, just below and just above the
\* half second of the release test
ChunkCounts == {0, 1, MaxBurst, MaxChunks}
ReadAndSend(k, count, act, half) ==
    /\ count + k \in ChunkCounts
    /\ chunk_count' = count + k
    /\ audioSent' = IF k = 0 THEN audioSent ELSE AudioAfterChunk(act)
    /\ UNCHANGED << candidateStr, resampled, lateVars >>
    /\ firstSent' = IF k = 0 THEN firstSent
                    ELSE FirstAfterSend("input_audio_buffer.append")
    /\ halfPassed' = (half \/ ~TooShort(count + k))

\* start_input_stream() succeeded: is_recording, send_activity_start, and
\* the first read of the same iteration (main.py 764-779)
StartRecording(k, half) ==
    /\ is_recording' = TRUE
    /\ activity' = ActivityAfterStart
    /\ ReadAndSend(k, 0, ActivityAfterStart, half)

\* the input task is at the top of its loop: not inside
\* accept_incoming_call, and is_in_videocall() is false
InputReady ==
    /\ LoopFree /\ inputPc = "loop" /\ running
    /\ flowPos = "none" /\ ~is_in_call

\* "while running" fails in the task
InputExit ==
    /\ LoopFree /\ inputPc \in {"loop", "wait_release", "music_wait"}
    /\ ~running
    /\ inputPc' = "done"
    /\ UNCHANGED << running, mainPc, now, delay, nextConn, pressed,
                    is_recording, chunk_count, last_button_press_time, halfPassed, music,
                    activity, audioSent >>
    /\ UNCHANGED clientVars
    /\ UNCHANGED readerVars
    /\ UNCHANGED callVars

\* second press within the threshold: ask for a session reset (704-720)
PressDoubleClick ==
    /\ InputReady /\ pressed /\ ~is_recording
    /\ DoubleClick
    /\ last_button_press_time' = 0
    /\ halfPassed' = FALSE
    /\ needs_session_reset' = TRUE
    /\ resetCause' = "double_click"
    /\ last_response_time' = 0
    /\ inputPc' = "wait_release"
    /\ UNCHANGED << running, mainPc, now, ws, is_connected, needs_reconnect,
                    reconnect_count, voice_message_mode,
                    voice_message_timestamp, delay, nextConn, pressed,
                    is_recording, chunk_count, music, activity, audioSent >>
    /\ UNCHANGED readerVars
    /\ UNCHANGED callVars

\* "while button.is_pressed and running" after the double click
WaitReleaseDone ==
    /\ LoopFree /\ inputPc = "wait_release" /\ running
    /\ ~pressed
    /\ inputPc' = "loop"
    /\ UNCHANGED << running, mainPc, now, delay, nextConn, pressed,
                    is_recording, chunk_count, last_button_press_time, halfPassed, music,
                    activity, audioSent >>
    /\ UNCHANGED clientVars
    /\ UNCHANGED readerVars
    /\ UNCHANGED callVars

\* a press while a reset is pending or the client is disconnected (734-736)
PressIgnored ==
    /\ InputReady /\ pressed /\ ~is_recording
    /\ ~DoubleClick
    /\ needs_session_reset \/ ~is_connected
    /\ last_button_press_time' = now
    /\ halfPassed' = FALSE
    /\ UNCHANGED << running, mainPc, now, delay, nextConn, inputPc, pressed,
                    is_recording, chunk_count, music, activity, audioSent >>
    /\ UNCHANGED clientVars
    /\ UNCHANGED readerVars
    /\ UNCHANGED callVars

\* a press in voice-message mode: record in the executor (738-746)
PressVoiceMessage ==
    /\ InputReady /\ pressed /\ ~is_recording
    /\ ~DoubleClick
    /\ ~needs_session_reset /\ is_connected
    /\ CheckVoiceMessageTimeout
    /\ last_button_press_time' = now
    /\ halfPassed' = FALSE
    /\ is_recording' = TRUE
    /\ inputPc' = "vm_start"
    /\ UNCHANGED << running, mainPc, now, delay, nextConn, pressed,
                    chunk_count, music, activity, audioSent >>
    /\ UNCHANGED clientVars
    /\ UNCHANGED readerVars
    /\ UNCHANGED callVars

\* send_recorded_voice_message in its thread: reset_voice_message_mode()
VoiceMessageThreadStart ==
    /\ inputPc = "vm_start"
    /\ voice_message_mode' = FALSE
    /\ voice_message_timestamp' = 0
    /\ inputPc' = "vm_record"
    /\ UNCHANGED << running, mainPc, now, ws, is_connected, needs_reconnect,
                    reconnect_count, needs_session_reset, resetCause, last_response_time,
                    delay, nextConn, pressed, is_recording, chunk_count,
                    last_button_press_time, halfPassed, music, activity, audioSent >>
    /\ UNCHANGED readerVars
    /\ UNCHANGED callVars

\* the thread returned: is_recording off, ask for a session reset (746-752)
VoiceMessageDone ==
    /\ LoopFree /\ inputPc = "vm_record"
    /\ ~pressed \/ ~running
    /\ is_recording' = FALSE
    /\ needs_session_reset' = TRUE
    /\ resetCause' = "voice_message"
    /\ inputPc' = "loop"
    /\ UNCHANGED << running, mainPc, now, ws, is_connected, needs_reconnect,
                    reconnect_count, last_response_time, voice_message_mode,
                    voice_message_timestamp, delay, nextConn, pressed,
                    chunk_count, last_button_press_time, halfPassed, music, activity,
                    audioSent >>
    /\ UNCHANGED readerVars
    /\ UNCHANGED callVars

\* a press that starts a turn, no music playing (754, 764-779)
PressStart ==
    /\ InputReady /\ pressed /\ ~is_recording
    /\ ~DoubleClick
    /\ ~needs_session_reset /\ is_connected
    /\ ~CheckVoiceMessageTimeout
    /\ ~is_music_active
    /\ music' = FALSE
    /\ mpv' = IF music THEN "reaped" ELSE mpv
    /\ last_button_press_time' = now
    /\ voice_message_mode' = ModeAfterCheck(TRUE)
    /\ voice_message_timestamp' = StampAfterCheck(TRUE)
    /\ last_response_time' = 0
    /\ \/ \E k \in ChunkSizes : StartRecording(k, FALSE)
       \/ /\ halfPassed' = FALSE
          /\ UNCHANGED << is_recording, activity, audioSent, chunk_count,
                          firstSent, candidateStr, resampled, lateVars >>
    /\ UNCHANGED << running, mainPc, now, ws, is_connected, needs_reconnect,
                    reconnect_count, needs_session_reset, resetCause, delay, nextConn,
                    inputPc, pressed >>
    /\ UNCHANGED readerVars
    /\ UNCHANGED << is_paused, current_track, killSignals, killParity >>
    /\ UNCHANGED << managerVars, signalVars, outputVars >>

\* the same press with music playing: stop the player, sleep 0.3 s (756-759)
PressStopsMusic ==
    /\ InputReady /\ pressed /\ ~is_recording
    /\ ~DoubleClick
    /\ ~needs_session_reset /\ is_connected
    /\ ~CheckVoiceMessageTimeout
    /\ is_music_active
    /\ last_button_press_time' = now
    /\ halfPassed' = FALSE
    /\ voice_message_mode' = ModeAfterCheck(TRUE)
    /\ voice_message_timestamp' = StampAfterCheck(TRUE)
    /\ last_response_time' = 0
    /\ \E exits \in BOOLEAN : stop_music_player(exits)
    /\ inputPc' = "music_wait"
    /\ UNCHANGED << running, mainPc, now, ws, is_connected, needs_reconnect,
                    reconnect_count, needs_session_reset, resetCause, delay, nextConn,
                    pressed, is_recording, chunk_count, activity, audioSent >>
    /\ UNCHANGED readerVars
    /\ output_stream' = TRUE
    /\ suspended' = FALSE
    /\ UNCHANGED remote_audio
    /\ UNCHANGED << managerVars, signalVars >>
    /\ UNCHANGED << firstSent, candidateStr, resampled, lateVars >>

\* after the sleep: ask for a session reset, then start recording (760-779)
MusicWaitDone ==
    /\ LoopFree /\ inputPc = "music_wait" /\ running
    /\ needs_session_reset' = TRUE
    /\ resetCause' = "music"
    /\ inputPc' = "loop"
    /\ \/ \E k \in ChunkSizes : StartRecording(k, halfPassed)
       \/ /\ chunk_count' = 0
          /\ UNCHANGED << is_recording, activity, audioSent, halfPassed,
                          firstSent, candidateStr, resampled, lateVars >>
    /\ UNCHANGED << running, mainPc, now, ws, is_connected, needs_reconnect,
                    reconnect_count, last_response_time, voice_message_mode,
                    voice_message_timestamp, delay, nextConn, pressed,
                    last_button_press_time, music >>
    /\ UNCHANGED readerVars
    /\ output_stream' = TRUE
    /\ suspended' = FALSE
    /\ UNCHANGED remote_audio
    /\ UNCHANGED << managerVars, signalVars, playerVars >>

\* button held while recording: read a chunk and send it (774-779)
HoldSendsChunk ==
    /\ InputReady /\ pressed /\ is_recording
    /\ \E k \in ChunkSizes \ {0} :
         ReadAndSend(k, chunk_count, activity, halfPassed)
    /\ UNCHANGED << running, mainPc, now, delay, nextConn, inputPc, pressed,
                    is_recording, last_button_press_time, music, activity >>
    /\ UNCHANGED clientVars
    /\ UNCHANGED readerVars
    /\ UNCHANGED otherVars

\* button released after a long enough recording: send_activity_end
ReleaseEndsTurn ==
    /\ InputReady /\ ~pressed /\ is_recording
    /\ ~TooShort(chunk_count)
    /\ is_recording' = FALSE
    /\ activity' = [activity EXCEPT !.open = FALSE]
    /\ UNCHANGED << candidateStr, resampled, lateVars >>
    /\ firstSent' = FirstAfterSend("input_audio_buffer.commit")
    /\ UNCHANGED << running, mainPc, now, delay, nextConn, inputPc, pressed,
                    chunk_count, last_button_press_time, halfPassed, music, audioSent >>
    /\ UNCHANGED clientVars
    /\ UNCHANGED readerVars
    /\ UNCHANGED otherVars

\* released too early: client.clear_input_buffer() does not exist, the
\* AttributeError ends the task
ReleaseTooShort ==
    /\ InputReady /\ ~pressed /\ is_recording
    /\ TooShort(chunk_count)
    /\ is_recording' = FALSE
    /\ inputPc' = "dead"
    /\ UNCHANGED << running, mainPc, now, delay, nextConn, pressed,
                    chunk_count, last_button_press_time, halfPassed, music, activity,
                    audioSent >>
    /\ UNCHANGED clientVars
    /\ UNCHANGED readerVars
    /\ UNCHANGED callVars

\* ------------------------------------------------------------ the user
ButtonChanges ==
    /\ mainPc # "done"
    /\ pressed' = ~pressed
    /\ UNCHANGED << running, mainPc, now, delay, nextConn, inputPc,
                    is_recording, chunk_count, last_button_press_time, halfPassed, music,
                    activity, audioSent >>
    /\ UNCHANGED clientVars
    /\ UNCHANGED readerVars
    /\ UNCHANGED callVars

\* alarm_notify / reminder_notify from their threads: when the client is
\* connected, send_text_message is scheduled on the loop and sends the item
\* and response.create on the socket the client holds then
TextNotify ==
    /\ mainPc # "done" /\ LoopFree
    /\ is_connected /\ ws # 0
    /\ UNCHANGED << candidateStr, resampled, lateVars >>
    /\ firstSent' = FirstAfterSend("conversation.item.create")
    /\ UNCHANGED << running, mainPc, now, delay, nextConn >>
    /\ UNCHANGED << clientVars, readerVars, inputVars >>
    /\ UNCHANGED otherVars

\* the music_play tool while nothing is being recorded: _play_youtube
\* releases the player it holds, stops the conversation stream, launches
\* mpv and looks half a second later whether it is still there
MusicStarts ==
    /\ running /\ ~is_recording /\ inputPc = "loop"
    /\ \E exits \in WaitOutcomes, launched \in BOOLEAN :
         /\ killSignals' = KillSignalsAfter(exits)
         /\ killParity' = KillParityAfter
         /\ music' = launched
         /\ current_track' = launched
         /\ mpv' = IF launched THEN "running" ELSE "reaped"
    /\ is_paused' = FALSE
    /\ UNCHANGED << running, mainPc, now, delay, nextConn, inputPc, pressed,
                    is_recording, chunk_count, last_button_press_time, halfPassed,
                    activity, audioSent >>
    /\ UNCHANGED clientVars
    /\ UNCHANGED readerVars
    /\ output_stream' = FALSE
    /\ UNCHANGED << remote_audio, suspended >>
    /\ UNCHANGED << managerVars, signalVars >>
    /\ UNCHANGED << firstSent, candidateStr, resampled, lateVars >>

\* the music_pause tool: MusicPause.execute and _send_mpv_command("pause");
\* a player that has ended is polled and nothing is sent, else SIGSTOP or
\* SIGCONT by the paused flag
MusicPauseTool ==
    /\ running /\ inputPc = "loop"
    /\ music
    /\ mpv' = IF PlayerGone THEN "reaped"
              ELSE IF is_paused THEN "running" ELSE "stopped"
    /\ is_paused' = IF PlayerGone THEN is_paused ELSE ~is_paused
    /\ UNCHANGED << current_track, killSignals, killParity >>
    /\ UNCHANGED << running, mainPc, now, delay, nextConn >>
    /\ UNCHANGED << clientVars, readerVars, inputVars >>
    /\ UNCHANGED << managerVars, signalVars, outputVars >>
    /\ UNCHANGED << firstSent, candidateStr, resampled, lateVars >>

\* the music_stop tool: MusicStop.execute; is_music_playing() clears the
\* handle of a player that has ended and nothing more is done, a live
\* player is released and the conversation stream started again
MusicStopTool ==
    /\ running /\ inputPc = "loop"
    /\ music
    /\ IF PlayerGone
       THEN /\ music' = FALSE
            /\ mpv' = "reaped"
            /\ UNCHANGED << is_paused, current_track, killSignals,
                            killParity, outputVars >>
       ELSE /\ \E exits \in BOOLEAN : KillPlayer(exits)
            /\ output_stream' = TRUE
            /\ suspended' = FALSE
            /\ UNCHANGED remote_audio
    /\ UNCHANGED << running, mainPc, now, delay, nextConn, inputPc, pressed,
                    is_recording, chunk_count, last_button_press_time, halfPassed,
                    activity, audioSent >>
    /\ UNCHANGED << clientVars, readerVars >>
    /\ UNCHANGED << managerVars, signalVars >>
    /\ UNCHANGED << firstSent, candidateStr, resampled, lateVars >>

\* the track comes to its end and mpv exits by itself
TrackEnds ==
    /\ music /\ mpv = "running"
    /\ mpv' = "exited"
    /\ UNCHANGED << is_paused, current_track, killSignals, killParity >>
    /\ UNCHANGED << running, mainPc, now, delay, nextConn >>
    /\ UNCHANGED << clientVars, readerVars, inputVars >>
    /\ UNCHANGED << managerVars, signalVars, outputVars >>
    /\ UNCHANGED << firstSent, candidateStr, resampled, lateVars >>

\* ------------------------------------------------------ VideoCallManager
\* The coroutines of the manager give up the event loop only inside the
\* awaits on the peer connection (setLocalDescription, setRemoteDescription,
\* addIceCandidate, close): create_peer_connection, start_local_media and
\* the stop() of the two tracks contain no await that suspends.
sessionVars == << running, mainPc, now, delay, nextConn, clientVars,
    readerVars, inputVars, playerVars, firstSent, candidateStr, resampled, lateVars >>

\* on_ice_candidate_received drops a candidate unless a call is pending
\* or current; a candidate coroutine already scheduled still runs after
\* the call it belonged to has ended
SessionKnown == flowPos # "none" \/ pcOffered # {} \/ pcRemote # {}

\* add_ice_candidate: the candidate goes straight to the primitive only
\* when there is a peer connection and it has a remote description
CanApply(p) == p # 0 /\ p \in pcRemote

\* A candidate string after candidate_str.split(): the sequence of its
\* whitespace-separated fields.  The empty string is the empty sequence.
WellFormed == << "candidate:1", "1", "udp", "2113937151", "192.168.1.5",
    "54321", "typ", "host" >>
Relayed == WellFormed \o << "raddr", "10.0.0.1", "rport", "9" >>
EmptyString == << >>
SevenFields == SubSeq(WellFormed, 1, 7)
BadComponent == [WellFormed EXCEPT ![2] = "one"]
BadPriority == [WellFormed EXCEPT ![4] = "high"]
BadPort == [WellFormed EXCEPT ![6] = "http"]
BadRelatedPort == WellFormed \o << "raddr", "10.0.0.1", "rport", "any" >>
CandidateStrings == { WellFormed, Relayed, EmptyString, SevenFields,
    BadComponent, BadPriority, BadPort, BadRelatedPort }

\* int(x) returns for these fields and raises ValueError for the others
IsInt(x) == x \in { "1", "9", "54321", "2113937151" }

\* the "candidate:" prefix is cut off before the split
Foundation(x) == IF x = "candidate:1" THEN "1" ELSE x

\* the loop over the optional key/value pairs from index 8 on
\* (0-based; pairs start at field 9 here): an rport must be an integer
RelatedOk(parts) ==
    \A i \in 9..(Len(parts) - 1) :
        (i % 2 = 1 /\ parts[i] = "rport") => IsInt(parts[i + 1])

None == << >>

\* parse_ice_candidate: None for the empty string, for fewer than eight
\* fields and when one of the int() conversions raises; otherwise the
\* RTCIceCandidate, here the one-element sequence of its fields
parse_ice_candidate_mut(parts) ==
    IF parts = EmptyString THEN None
    ELSE IF Len(parts) < 8 THEN None
    ELSE IF ~IsInt(parts[2]) \/ ~IsInt(parts[4]) THEN None
    ELSE << [foundation |-> Foundation(parts[1]), component |-> parts[2],
             protocol |-> parts[3], priority |-> parts[4], ip |-> parts[5],
             port |-> parts[6], type |-> parts[8]] >>
parse_ice_candidate(parts) ==
    IF parts = EmptyString THEN None
    ELSE IF Len(parts) < 8 THEN None
    ELSE IF ~IsInt(parts[2]) \/ ~IsInt(parts[4]) \/ ~IsInt(parts[6])
        THEN None
    ELSE IF ~RelatedOk(parts) THEN None
    ELSE << [foundation |-> Foundation(parts[1]), component |-> parts[2],
             protocol |-> parts[3], priority |-> parts[4], ip |-> parts[5],
             port |-> parts[6], type |-> parts[8]] >>

\* await self.pc.addIceCandidate(...): what the primitive is handed, and
\* whether it had a remote description (rem: the connections that have
\* one) at that moment.  With self.pc None the attribute access raises
\* and nothing is handed over.
AppliedWith(c, str, rem) ==
    IF parse_ice_candidate(str) = None THEN applied
    ELSE IF pc = 0 THEN applied
    ELSE Append(applied, [pc |-> pc, cand |-> c, remote |-> pc \in rem])

\* the same for a candidate that waited in the queue
AppliedAfter(c, rem) == AppliedWith(c, candidateStr[c], rem)

\* _handle_ice_candidate -> add_ice_candidate for the next remote candidate
IceArrives(strings) ==
    /\ SessionKnown
    /\ nextCand <= MaxCands
    /\ nextCand' = nextCand + 1
    /\ \E str \in strings :
        /\ candidateStr' = [candidateStr EXCEPT ![nextCand] = str]
        /\ UNCHANGED << resampled, lateVars >>
        /\ IF CanApply(pc)
           THEN /\ applied' = AppliedWith(nextCand, str, pcRemote)
                /\ pendingIce' = pendingIce
           ELSE /\ pendingIce' = Append(pendingIce, nextCand)
                /\ applied' = applied
    /\ UNCHANGED << pc, nextPc, pcOffered, pcRemote, tracks, is_in_call,
                    outPos, outTarget, flowPos, flowTarget, flushIdx, endPos,
                    endCalls, stopCount, closeCount >>
    /\ UNCHANGED << running, mainPc, now, delay, nextConn, clientVars,
                    readerVars, inputVars, playerVars, firstSent >>
    /\ UNCHANGED << signalVars, outputVars >>

\* the candidates of a peer whose strings all parse
IceCandidateArrives == IceArrives({ WellFormed })

\* the candidates of a peer that may send any string without the
\* optional raddr and rport fields
IceCandidateArrivesAny ==
    IceArrives(CandidateStrings \ { Relayed, BadRelatedPort })

\* create_peer_connection() and start_local_media():
\* self.pc = RTCPeerConnection(...), both tracks created and started
NewPeerConnection ==
    /\ nextPc <= MaxPcs
    /\ pc' = nextPc
    /\ nextPc' = nextPc + 1
    /\ tracks' = TRUE

\* end_call(): the tracks are stopped only when they are there
EndCallStops_mut(t) == TRUE
EndCallStops(t) == t

\* _restart_audio_handler(): start_output_stream()
RestartAudioHandler ==
    /\ output_stream' = TRUE
    /\ suspended' = FALSE

\* end_call() up to its only suspending await, self.pc.close(); an
\* invocation that finds no peer connection returns without suspending.
\* restart: the caller of end_call goes on to _restart_audio_handler when
\* end_call has returned.  With is_in_call False the loop of
\* _play_remote_audio ends and closes its stream.
EndCallEnter(restart) ==
    /\ endCalls' = endCalls + 1
    /\ is_in_call' = FALSE
    /\ pendingIce' = << >>
    /\ stopCount' = (IF EndCallStops(tracks) THEN stopCount + 1 ELSE stopCount)
    /\ tracks' = FALSE
    /\ remote_audio' = FALSE
    /\ IF pc # 0
       THEN /\ closeCount' = closeCount + 1
            /\ endPos' = (IF restart THEN "close_restart" ELSE "close")
            /\ UNCHANGED << output_stream, suspended >>
       ELSE /\ UNCHANGED << closeCount, endPos >>
            /\ IF restart THEN RestartAudioHandler
               ELSE UNCHANGED << output_stream, suspended >>

\* on_track -> _play_remote_audio: the stream is opened and stays open as
\* long as is_in_call holds; with is_in_call False the loop body never
\* runs and the stream is closed again at once
RemoteTrack == remote_audio' = (remote_audio \/ is_in_call)

\* _start_outgoing_call up to the await of setLocalDescription inside
\* create_offer: connection, media, create_call.  The videocall_start tool
\* starts it only when the manager is not in a call.
StartOutgoing ==
    /\ ~is_in_call
    /\ outPos = "none"
    /\ NewPeerConnection
    /\ outPos' = "offer"
    /\ outTarget' = pc'
    /\ UNCHANGED << pcOffered, pcRemote, is_in_call, pendingIce, nextCand,
                    applied, flowPos, flowTarget, flushIdx, endPos,
                    endCalls, stopCount, closeCount >>
    /\ UNCHANGED sessionVars
    /\ UNCHANGED << signalVars, outputVars >>

\* the rest of _start_outgoing_call: the offer is the local description
\* of the connection it was made on, and send_offer publishes it.  After a
\* teardown in the meantime create_offer returns None and the coroutine
\* calls end_call itself.
OutgoingOffer ==
    /\ outPos = "offer"
    /\ outPos' = "none"
    /\ outTarget' = 0
    /\ IF pc = 0
       THEN /\ endPos = "idle" /\ endCalls < MaxEnds
            /\ EndCallEnter(FALSE)
            /\ pcOffered' = pcOffered
       ELSE /\ pcOffered' = pcOffered \cup {outTarget}
            /\ UNCHANGED << tracks, is_in_call, pendingIce, endPos, endCalls,
                            stopCount, closeCount >>
            /\ UNCHANGED outputVars
    /\ UNCHANGED << pc, nextPc, pcRemote, nextCand, applied, flowPos,
                    flowTarget, flushIdx >>
    /\ UNCHANGED sessionVars
    /\ UNCHANGED signalVars

\* _handle_answer -> handle_answer: setRemoteDescription(answer) on the
\* connection that made the offer; nothing else follows it
HandleAnswer ==
    /\ pc # 0 /\ pc \in pcOffered /\ pc \notin pcRemote
    /\ pcRemote' = pcRemote \cup {pc}
    /\ UNCHANGED << pc, nextPc, pcOffered, tracks, is_in_call, pendingIce,
                    nextCand, applied, outPos, outTarget, flowPos, flowTarget,
                    flushIdx, endPos, endCalls, stopCount, closeCount >>
    /\ UNCHANGED sessionVars
    /\ RemoteTrack
    /\ UNCHANGED << output_stream, suspended >>
    /\ UNCHANGED signalVars

\* accept_incoming_call up to the await of setRemoteDescription inside
\* handle_offer: connection, media, the call on self.pc
AcceptCreateCall ==
    /\ flowPos = "none"
    /\ NewPeerConnection
    /\ flowTarget' = pc'
    /\ flowPos' = "offer"
    /\ UNCHANGED << pcOffered, pcRemote, is_in_call, pendingIce, nextCand,
                    applied, outPos, outTarget, flushIdx, endPos, endCalls,
                    stopCount, closeCount >>
    /\ output_stream' = FALSE
    /\ suspended' = (suspended \/ output_stream)
    /\ UNCHANGED remote_audio
    /\ UNCHANGED signalVars

AcceptCreate ==
    /\ AcceptCreateCall
    /\ UNCHANGED sessionVars

\* the press that answers a pending call (main.py 722-731): the input loop
\* stays inside accept_incoming_call until the flow has ended and sleeps
\* half a second after it, so the double-click window of this press is
\* over when the loop looks at the button again
PressAccepts ==
    /\ InputReady /\ pressed /\ ~is_recording
    /\ ~DoubleClick
    /\ pc = 0 /\ endPos = "idle"
    /\ AcceptCreateCall
    /\ last_button_press_time' = now
    /\ halfPassed' = TRUE
    /\ UNCHANGED << running, mainPc, now, delay, nextConn, inputPc, pressed,
                    is_recording, chunk_count, music, activity, audioSent >>
    /\ UNCHANGED << clientVars, readerVars, playerVars >>
    /\ UNCHANGED << firstSent, candidateStr, resampled, lateVars >>

\* setRemoteDescription(offer) returns: the remote description is on the
\* connection it was called on, and _process_pending_ice_candidates hands
\* the first queued candidate to self.pc as it is now.  After a teardown
\* in the meantime handle_offer returns None and accept_incoming_call
\* calls end_call.
AcceptOffer ==
    /\ flowPos = "offer"
    /\ IF pc = 0
       THEN /\ endPos = "idle" /\ endCalls < MaxEnds
            /\ EndCallEnter(TRUE)
            /\ flowPos' = "none" /\ flowTarget' = 0
            /\ UNCHANGED << pcRemote, applied, flushIdx >>
       ELSE /\ pcRemote' = pcRemote \cup {flowTarget}
            /\ IF pendingIce = << >>
               THEN /\ flowPos' = "none" /\ flowTarget' = 0
                    /\ UNCHANGED << applied, flushIdx >>
               ELSE /\ applied' = AppliedAfter(pendingIce[1], pcRemote')
                    /\ flushIdx' = 1
                    /\ flowPos' = "flush"
                    /\ flowTarget' = flowTarget
            /\ RemoteTrack
            /\ UNCHANGED << tracks, endCalls, is_in_call, pendingIce,
                            stopCount, closeCount, endPos, output_stream,
                            suspended >>
    /\ UNCHANGED << pc, nextPc, pcOffered, nextCand, outPos, outTarget >>
    /\ UNCHANGED sessionVars
    /\ UNCHANGED signalVars

\* the for loop of _process_pending_ice_candidates after an
\* await self.pc.addIceCandidate: the next element of the list as it is
\* now, or the clear() when the list has no further element.  The rest of
\* handle_offer (createAnswer, setLocalDescription, send_answer) does not
\* touch the queue.
FlushNext ==
    /\ flowPos = "flush"
    /\ IF flushIdx < Len(pendingIce)
       THEN /\ applied' = AppliedAfter(pendingIce[flushIdx + 1], pcRemote)
            /\ flushIdx' = flushIdx + 1
            /\ UNCHANGED << pendingIce, flowPos, flowTarget >>
       ELSE /\ pendingIce' = << >>
            /\ flushIdx' = 0
            /\ flowPos' = "none" /\ flowTarget' = 0
            /\ applied' = applied
    /\ UNCHANGED << pc, nextPc, pcOffered, pcRemote, tracks, is_in_call,
                    nextCand, outPos, outTarget, endPos, endCalls, stopCount,
                    closeCount >>
    /\ UNCHANGED sessionVars
    /\ UNCHANGED << signalVars, outputVars >>

\* connectionstatechange to "connected" on a negotiated connection
ConnectionConnected ==
    /\ pc # 0 /\ pc \in pcRemote /\ ~is_in_call
    /\ endPos = "idle"
    /\ is_in_call' = TRUE
    /\ UNCHANGED << pc, nextPc, pcOffered, pcRemote, tracks, pendingIce,
                    nextCand, applied, outPos, outTarget, flowPos, flowTarget,
                    flushIdx, endPos, endCalls, stopCount, closeCount >>
    /\ UNCHANGED sessionVars
    /\ UNCHANGED << signalVars, outputVars >>

\* end_videocall(): video_manager.end_call() is scheduled on the loop;
\* the videocall_end tool calls it only when the manager is in a call.
\* An invocation starts once an earlier one has returned.
EndVideocall ==
    /\ is_in_call
    /\ endPos = "idle"
    /\ endCalls < MaxEnds
    /\ EndCallEnter(FALSE)
    /\ UNCHANGED << pc, nextPc, pcOffered, pcRemote, nextCand, applied,
                    outPos, outTarget, flowPos, flowTarget, flushIdx >>
    /\ UNCHANGED sessionVars
    /\ UNCHANGED signalVars

\* _cleanup_call(), scheduled by on_call_ended when the poll loop saw the
\* tracked call ended: end_call, then _restart_audio_handler
CleanupCall ==
    /\ SessionKnown
    /\ endPos = "idle"
    /\ endCalls < MaxEnds
    /\ EndCallEnter(TRUE)
    /\ UNCHANGED << pc, nextPc, pcOffered, pcRemote, nextCand, applied,
                    outPos, outTarget, flowPos, flowTarget, flushIdx >>
    /\ UNCHANGED sessionVars
    /\ UNCHANGED signalVars

\* close() has returned: self.pc = None, and _cleanup_call or
\* accept_incoming_call goes on to _restart_audio_handler
EndCallClose ==
    /\ endPos \in {"close", "close_restart"}
    /\ IF endPos = "close_restart" THEN RestartAudioHandler
       ELSE UNCHANGED << output_stream, suspended >>
    /\ UNCHANGED remote_audio
    /\ pc' = 0
    /\ endPos' = "idle"
    /\ UNCHANGED << nextPc, pcOffered, pcRemote, tracks, is_in_call,
                    pendingIce, nextCand, applied, outPos, outTarget, flowPos,
                    flowTarget, flushIdx, endCalls, stopCount, closeCount >>
    /\ UNCHANGED sessionVars
    /\ UNCHANGED signalVars

\* ----------------------------------------------------- FirebaseSignaling
\* The record of a call in the store, the writes the two devices make to
\* it, and the poll thread of the local device.  Both devices follow the
\* same protocol, so the peer's writes are the ones this code makes in the
\* other role.
device_id == "raspi"
peer_id == "phone"

pollVars == << pollPc, snapshot, last_seen_sessions, last_answer,
    last_caller_candidates, last_callee_candidates,
    incomingFired, answerFired, endedFired, iceFired >>

\* created_at is the wall clock at the write, in seconds here
NewRecord(from, to) ==
    [NoRecord EXCEPT !.caller = from, !.callee = to, !.status = "calling",
                     !.created_at = now]

\* _update_status: PUT <session>/status
UpdateStatus(s, st) ==
    /\ db' = [db EXCEPT ![s].status = st]
    /\ statusLog' = [statusLog EXCEPT ![s] = Append(@, st)]

\* create_call() inside _start_outgoing_call: the record is written and
\* the session becomes the tracked one
CreateCall ==
    /\ nextSession <= MaxSessions
    /\ db' = [db EXCEPT ![nextSession] = NewRecord(device_id, peer_id)]
    /\ statusLog' = [statusLog EXCEPT ![nextSession] = << "calling" >>]
    /\ current_session_id' = nextSession
    /\ nextSession' = nextSession + 1
    /\ UNCHANGED << nextSigCand, pending_incoming_call, accepting >>
    /\ UNCHANGED pollVars
    /\ UNCHANGED << sessionVars, managerVars, outputVars >>

\* send_offer() at the end of _start_outgoing_call
SendOffer ==
    /\ \E s \in Sessions :
          /\ db[s].caller = device_id /\ ~db[s].offer
          /\ db' = [db EXCEPT ![s].offer = TRUE]
    /\ UNCHANGED << statusLog, nextSession, nextSigCand, current_session_id,
                    pending_incoming_call, accepting >>
    /\ UNCHANGED pollVars
    /\ UNCHANGED << sessionVars, managerVars, outputVars >>

\* the peer's create_call: a record that names the local device as callee
PeerCreates(limit) ==
    /\ nextSession <= limit
    /\ db' = [db EXCEPT ![nextSession] = NewRecord(peer_id, device_id)]
    /\ statusLog' = [statusLog EXCEPT ![nextSession] = << "calling" >>]
    /\ nextSession' = nextSession + 1
    /\ UNCHANGED << nextSigCand, current_session_id, pending_incoming_call,
                    accepting >>
    /\ UNCHANGED pollVars
    /\ UNCHANGED << sessionVars, managerVars, outputVars >>

\* the peer calls the device
PeerCreatesCall == PeerCreates(MaxSessions)

\* the peer calls the device, and it or another caller calls once more
CallerCreatesCall == PeerCreates(MaxRecords)

\* the peer's send_offer, its second write
PeerSendsOffer ==
    /\ \E s \in Sessions :
          /\ db[s].caller = peer_id /\ ~db[s].offer
          /\ db' = [db EXCEPT ![s].offer = TRUE]
    /\ UNCHANGED << statusLog, nextSession, nextSigCand, current_session_id,
                    pending_incoming_call, accepting >>
    /\ UNCHANGED pollVars
    /\ UNCHANGED << sessionVars, managerVars, outputVars >>

InLog(s, st) == \E i \in 1..Len(statusLog[s]) : statusLog[s][i] = st

\* the peer's accept_call on a call of the local device that it sees with
\* an offer and status calling
PeerAccepts ==
    /\ \E s \in Sessions :
          /\ db[s].caller = device_id /\ db[s].offer
          /\ db[s].status = "calling"
          /\ UpdateStatus(s, "answering")
    /\ UNCHANGED << nextSession, nextSigCand, current_session_id,
                    pending_incoming_call, accepting >>
    /\ UNCHANGED pollVars
    /\ UNCHANGED << sessionVars, managerVars, outputVars >>

\* the peer's send_answer, first request: PUT <session>/answer
PeerSendsAnswer ==
    /\ \E s \in Sessions :
          /\ db[s].caller = device_id /\ InLog(s, "answering")
          /\ ~db[s].answer
          /\ db' = [db EXCEPT ![s].answer = TRUE]
    /\ UNCHANGED << statusLog, nextSession, nextSigCand, current_session_id,
                    pending_incoming_call, accepting >>
    /\ UNCHANGED pollVars
    /\ UNCHANGED << sessionVars, managerVars, outputVars >>

\* the peer's send_answer, second request: status connected
PeerConnected ==
    /\ \E s \in Sessions :
          /\ db[s].caller = device_id /\ db[s].answer
          /\ ~InLog(s, "connected")
          /\ UpdateStatus(s, "connected")
    /\ UNCHANGED << nextSession, nextSigCand, current_session_id,
                    pending_incoming_call, accepting >>
    /\ UNCHANGED pollVars
    /\ UNCHANGED << sessionVars, managerVars, outputVars >>

\* send_ice_candidate: POST to caller_candidates or callee_candidates, the
\* store gives the entry a fresh key
PostCandidate(s, is_caller) ==
    /\ nextSigCand <= MaxSigCands
    /\ nextSigCand' = nextSigCand + 1
    /\ db' = IF is_caller
             THEN [db EXCEPT ![s].caller_candidates = @ \cup {nextSigCand}]
             ELSE [db EXCEPT ![s].callee_candidates = @ \cup {nextSigCand}]

\* the peer publishes a candidate of its own: as caller once it has
\* created the call, as callee once it has accepted it
PeerSendsCandidate ==
    /\ \E s \in Sessions :
          /\ db[s].caller = peer_id \/ InLog(s, "answering")
          /\ PostCandidate(s, db[s].caller = peer_id)
    /\ UNCHANGED << statusLog, nextSession, current_session_id,
                    pending_incoming_call, accepting >>
    /\ UNCHANGED pollVars
    /\ UNCHANGED << sessionVars, managerVars, outputVars >>

\* the on_ice_candidate callbacks of _start_outgoing_call (current session,
\* is_caller=True) and accept_incoming_call (its session, is_caller=False)
SendsCandidate ==
    /\ \E s \in Sessions :
          /\ \/ db[s].caller = device_id /\ current_session_id = s
             \/ db[s].callee = device_id /\ accepting = s
          /\ PostCandidate(s, db[s].caller = device_id)
    /\ UNCHANGED << statusLog, nextSession, current_session_id,
                    pending_incoming_call, accepting >>
    /\ UNCHANGED pollVars
    /\ UNCHANGED << sessionVars, managerVars, outputVars >>

\* the peer ends a call
PeerEnds ==
    /\ \E s \in Sessions :
          /\ db[s].caller # "" /\ ~InLog(s, "ended")
          /\ UpdateStatus(s, "ended")
    /\ UNCHANGED << nextSession, nextSigCand, current_session_id,
                    pending_incoming_call, accepting >>
    /\ UNCHANGED pollVars
    /\ UNCHANGED << sessionVars, managerVars, outputVars >>

\* FirebaseSignaling.end_call() from end_videocall: status ended on the
\* tracked session, then tracking cleared; nothing without a tracked one
SignalingEndCall ==
    /\ current_session_id # 0
    /\ UpdateStatus(current_session_id, "ended")
    /\ current_session_id' = 0
    /\ UNCHANGED << nextSession, nextSigCand, pending_incoming_call,
                    accepting >>
    /\ UNCHANGED pollVars
    /\ UNCHANGED << sessionVars, managerVars, outputVars >>

\* accept_incoming_call: takes the pending call and accept_call() tracks
\* it and writes status answering
AcceptCall ==
    /\ pending_incoming_call # 0
    /\ accepting = 0
    /\ accepting' = pending_incoming_call
    /\ pending_incoming_call' = 0
    /\ current_session_id' = pending_incoming_call
    /\ UpdateStatus(pending_incoming_call, "answering")
    /\ UNCHANGED << nextSession, nextSigCand >>
    /\ UNCHANGED pollVars
    /\ UNCHANGED << sessionVars, managerVars, outputVars >>

\* send_answer(), first request: PUT <session>/answer
SendAnswer ==
    /\ accepting # 0
    /\ ~db[accepting].answer
    /\ db' = [db EXCEPT ![accepting].answer = TRUE]
    /\ UNCHANGED << statusLog, nextSession, nextSigCand, current_session_id,
                    pending_incoming_call, accepting >>
    /\ UNCHANGED pollVars
    /\ UNCHANGED << sessionVars, managerVars, outputVars >>

\* send_answer(), second request: status connected; accept_incoming_call
\* returns
AnswerConnected ==
    /\ accepting # 0
    /\ db[accepting].answer
    /\ UpdateStatus(accepting, "connected")
    /\ accepting' = 0
    /\ UNCHANGED << nextSession, nextSigCand, current_session_id,
                    pending_incoming_call >>
    /\ UNCHANGED pollVars
    /\ UNCHANGED << sessionVars, managerVars, outputVars >>

\* accept_incoming_call gives up (no offer in the record it was handed, or
\* handle_offer returned None): nothing is written
AcceptFails ==
    /\ accepting # 0
    /\ ~db[accepting].answer
    /\ accepting' = 0
    /\ UNCHANGED << db, statusLog, nextSession, nextSigCand,
                    current_session_id, pending_incoming_call >>
    /\ UNCHANGED pollVars
    /\ UNCHANGED << sessionVars, managerVars, outputVars >>

\* _poll_signals: GET /videocall.json
PollFetch ==
    /\ pollPc = "sleep"
    /\ snapshot' = db
    /\ pollPc' = "fetched"
    /\ UNCHANGED << db, statusLog, nextSession, nextSigCand,
                    current_session_id, last_seen_sessions, last_answer,
                    last_caller_candidates, last_callee_candidates,
                    pending_incoming_call, accepting,
                    incomingFired, answerFired, endedFired, iceFired >>
    /\ UNCHANGED << sessionVars, managerVars, outputVars >>

\* step (1): the local device is the callee, status calling, id not seen
IncomingNew(s) ==
    /\ snapshot[s].callee = device_id
    /\ snapshot[s].status = "calling"
    /\ s \notin last_seen_sessions
\* the event itself needs the offer
IncomingFires(s) == IncomingNew(s) /\ snapshot[s].offer

\* step (2): the local device is the caller and the record has an answer
AnswerIsNew_mut(s) == TRUE
AnswerIsNew(s) == s \notin last_answer
AnswerFires(s) ==
    snapshot[s].caller = device_id /\ snapshot[s].answer /\ AnswerIsNew(s)

\* step (4), _check_ice_candidates: the list of the other side and the
\* entries of it that are not in the seen-set
WatchesCallee(s) == snapshot[s].caller = device_id
OtherCandidates(s) ==
    IF WatchesCallee(s) THEN snapshot[s].callee_candidates
    ELSE snapshot[s].caller_candidates
SeenCandidates(s) ==
    IF WatchesCallee(s) THEN last_callee_candidates[s]
    ELSE last_caller_candidates[s]
NewCandidates_mut(s) == OtherCandidates(s)
NewCandidates(s) == OtherCandidates(s) \ SeenCandidates(s)

\* step (5): status ended on the session that is tracked at that moment
EndedOnTracked_mut(s, cur) == snapshot[s].status = "ended"
EndedOnTracked(s, cur) == snapshot[s].status = "ended" /\ s = cur

\* the for loop over the records in key order: what on_incoming_call and
\* on_call_ended leave in _pending_incoming_call, what is left in
\* current_session_id, and the sessions call-ended was fired for
RECURSIVE PollLoop(_)
PollLoop(k) ==
    IF k = 0
    THEN [cur |-> current_session_id, pend |-> pending_incoming_call,
          ended |-> {}]
    ELSE LET q == PollLoop(k - 1)
             p == IF IncomingFires(k) THEN k ELSE q.pend
         IN  IF snapshot[k].caller # "" /\ EndedOnTracked(k, q.cur)
             THEN [cur |-> 0, pend |-> 0, ended |-> q.ended \cup {k}]
             ELSE [cur |-> q.cur, pend |-> p, ended |-> q.ended]

\* on_incoming_call for the records of the snapshot in key order: each
\* event hands one more accept_incoming_call to the event loop
RECURSIVE ScheduledAfter(_)
ScheduledAfter(k) ==
    IF k = 0 THEN scheduled
    ELSE IF snapshot[k].caller # "" /\ IncomingFires(k)
         THEN Append(ScheduledAfter(k - 1), k)
         ELSE ScheduledAfter(k - 1)

\* on_ice_candidate_received for a candidate of record k, called from step
\* (4) of its iteration: the session it compares with is the pending call
\* if there is one (the incoming-call event of the same iteration has set
\* it already), else current_session_id; the candidate is handed to
\* _handle_ice_candidate only when that session is k
IceTarget(k) ==
    LET q == PollLoop(k - 1)
        p == IF IncomingFires(k) THEN k ELSE q.pend
    IN  IF p # 0 THEN p ELSE q.cur
IceHanded(k) == IceTarget(k) = k

\* _poll_signals on the snapshot it fetched
PollProcess ==
    /\ pollPc = "fetched"
    /\ LET out == PollLoop(MaxRecords)
           recs == {s \in Sessions : snapshot[s].caller # ""}
       IN  /\ last_seen_sessions' =
                 last_seen_sessions \cup {s \in recs : IncomingNew(s)}
           /\ incomingFired' =
                 [s \in Sessions |->
                     IF s \in recs /\ IncomingFires(s)
                     THEN incomingFired[s] + 1 ELSE incomingFired[s]]
           /\ last_answer' = last_answer \cup {s \in recs : AnswerFires(s)}
           /\ answerFired' =
                 [s \in Sessions |->
                     IF s \in recs /\ AnswerFires(s)
                     THEN answerFired[s] + 1 ELSE answerFired[s]]
           /\ iceFired' =
                 [c \in SigCands |->
                     IF \E s \in recs : c \in NewCandidates(s)
                     THEN iceFired[c] + 1 ELSE iceFired[c]]
           /\ last_callee_candidates' =
                 [s \in Sessions |->
                     IF s \in recs /\ WatchesCallee(s)
                     THEN last_callee_candidates[s] \cup NewCandidates(s)
                     ELSE last_callee_candidates[s]]
           /\ last_caller_candidates' =
                 [s \in Sessions |->
                     IF s \in recs /\ ~WatchesCallee(s)
                     THEN last_caller_candidates[s] \cup NewCandidates(s)
                     ELSE last_caller_candidates[s]]
           /\ endedFired' =
                 [s \in Sessions |->
                     IF s \in out.ended
                     THEN endedFired[s] + 1 ELSE endedFired[s]]
           /\ scheduled' = ScheduledAfter(MaxRecords)
           /\ iceDropped' =
                 iceDropped \cup
                    {c \in SigCands :
                        \E s \in recs : c \in NewCandidates(s)
                                         /\ ~IceHanded(s)}
           /\ current_session_id' = out.cur
           /\ pending_incoming_call' = out.pend
    /\ snapshot' = [s \in Sessions |-> NoRecord]
    /\ pollPc' = "sleep"
    /\ UNCHANGED << db, statusLog, nextSession, nextSigCand, accepting, dial,
                    failures >>
    /\ UNCHANGED << running, mainPc, now, delay, nextConn, clientVars,
                    readerVars, inputVars, playerVars, firstSent,
                    candidateStr, resampled >>
    /\ UNCHANGED << managerVars, outputVars >>

\* ------------------------------------------------------------------ Next
Next ==
    \/ IdleCheck \/ ResetBegin \/ ResetDisconnect \/ ResetConnectOk
    \/ ResetConnectFail \/ ReconnectBegin \/ ReconnectOpenOk
    \/ ReconnectOpenFail \/ ConnectBegin \/ ConnectOk \/ ConnectFail
    \/ TickSleep \/ MainExit \/ SignalHandler \/ Advance
    \/ RecvClosed \/ RecvMalformed \/ RecvPlain \/ RecvToolInline
    \/ RecvToolSlow \/ WorkerReturns \/ BackendSendsAny
    \/ InputExit \/ PressDoubleClick \/ WaitReleaseDone \/ PressIgnored
    \/ PressVoiceMessage \/ VoiceMessageThreadStart \/ VoiceMessageDone
    \/ PressStart \/ PressStopsMusic \/ MusicWaitDone \/ HoldSendsChunk
    \/ ReleaseEndsTurn \/ ReleaseTooShort \/ ButtonChanges \/ MusicStarts

Spec == Init /\ [][Next]_vars

\* ------------------------------------------------------- specifications
\* the coroutine main_async
MainLoop ==
    \/ IdleCheck \/ ResetBegin \/ ResetDisconnect \/ ResetConnectOk
    \/ ResetConnectFail \/ ReconnectBegin \/ ReconnectOpenOk
    \/ ReconnectOpenFail \/ ConnectBegin \/ ConnectOk \/ ConnectFail
    \/ TickSleep \/ MainExit

\* connection life cycle: the main loop, the reader with the events that
\* are not tool calls, the double click that asks for a reset, shutdown.
\* Nobody records and the clock stands still.
NextConn ==
    \/ MainLoop \/ SignalHandler
    \/ RecvClosed \/ RecvMalformed \/ RecvPlain \/ BackendSendsPlain
    \/ InputExit \/ PressDoubleClick \/ WaitReleaseDone \/ PressIgnored
    \/ ButtonChanges

SpecConn == Init /\ [][NextConn]_vars

\* the idle check by itself: the clock, turns that complete, the voice_send
\* tool, connections that drop and come back.  Nobody touches the button.
NextTick ==
    \/ IdleCheck \/ ResetBegin \/ ResetDisconnect \/ ResetConnectOk
    \/ ConnectBegin \/ ConnectOk \/ TickSleep \/ Advance
    \/ ReconnectBegin \/ ReconnectOpenOk
    \/ RecvClosed \/ RecvPlain \/ RecvToolInline \/ BackendSendsTurnOrClose

SpecTick == Init /\ [][NextTick]_vars

\* every way a session reset is asked for except the music stop: the idle
\* check, the double click, the end of a voice-message recording; the
\* transport opens whenever asked
NextIdle ==
    \/ IdleCheck \/ ResetBegin \/ ResetDisconnect \/ ResetConnectOk
    \/ ConnectBegin \/ ConnectOk \/ TickSleep \/ Advance
    \/ RecvPlain \/ RecvToolInline \/ BackendSendsTurn
    \/ PressDoubleClick \/ WaitReleaseDone \/ PressIgnored
    \/ PressVoiceMessage \/ VoiceMessageThreadStart \/ VoiceMessageDone
    \/ ButtonChanges

SpecIdle == Init /\ [][NextIdle]_vars

\* tool calls, inline and slow, on a transport that opens whenever asked
\* and that the backend may close; a voice-message recording asks for the
\* session reset, SIGINT ends the main loop
NextTools ==
    \/ IdleCheck \/ ResetBegin \/ ResetDisconnect \/ ResetConnectOk
    \/ ConnectBegin \/ ConnectOk \/ TickSleep
    \/ ReconnectBegin \/ ReconnectOpenOk
    \/ RecvClosed \/ RecvPlain \/ RecvToolInline \/ RecvToolSlow
    \/ WorkerReturns \/ BackendSendsTools
    \/ PressVoiceMessage \/ VoiceMessageThreadStart \/ VoiceMessageDone
    \/ ButtonChanges
    \/ SignalHandler \/ MainExit

SpecTools == Init /\ [][NextTools]_vars

\* push-to-talk turns and the music player, with the session resets the
\* button asks for and a transport that the backend may close
BackendSendsClose == BackendSends({"closed"}, {})
NextAudio ==
    \/ IdleCheck \/ ResetBegin \/ ResetDisconnect \/ ResetConnectOk
    \/ ConnectBegin \/ ConnectOk \/ TickSleep
    \/ ReconnectBegin \/ ReconnectOpenOk
    \/ RecvClosed \/ BackendSendsClose
    \/ PressDoubleClick \/ WaitReleaseDone \/ PressIgnored
    \/ PressStart \/ PressStopsMusic \/ MusicWaitDone \/ HoldSendsChunk
    \/ ReleaseEndsTurn \/ ReleaseTooShort \/ ButtonChanges \/ MusicStarts

SpecAudio == Init /\ [][NextAudio]_vars

\* the music player next to push-to-talk: the three music tools, a track
\* that ends, the press that stops the music, shutdown
NextMusic ==
    \/ IdleCheck \/ ConnectBegin \/ ConnectOk \/ TickSleep
    \/ MusicStarts \/ MusicPauseTool \/ MusicStopTool \/ TrackEnds
    \/ PressStart \/ PressStopsMusic \/ MusicWaitDone \/ HoldSendsChunk
    \/ ReleaseEndsTurn \/ ButtonChanges
    \/ SignalHandler \/ InputExit \/ MainExit

SpecMusic == Init /\ [][NextMusic]_vars

\* voice-message mode: the voice_send tool, the clock, the idle check, the
\* press that records the message or starts a turn, resets and reconnects
NextVoice ==
    \/ IdleCheck \/ ResetBegin \/ ResetDisconnect \/ ResetConnectOk
    \/ ConnectBegin \/ ConnectOk \/ TickSleep \/ Advance
    \/ RecvPlain \/ RecvToolInline \/ BackendSendsTurn
    \/ PressVoiceMessage \/ VoiceMessageThreadStart \/ VoiceMessageDone
    \/ PressStart \/ ButtonChanges

SpecVoice == Init /\ [][NextVoice]_vars

\* the life of voice-message mode across resets and reconnects: the idle
\* check and the transport of NextTick, and the press that uses the mode
NextMode ==
    \/ NextTick
    \/ PressVoiceMessage \/ VoiceMessageThreadStart \/ VoiceMessageDone
    \/ ButtonChanges

SpecMode == Init /\ [][NextMode]_vars

\* everything the client sends: the handshake of connect, reset and
\* reconnect, microphone chunks and the end of a turn, tool results, text
\* notifications
BackendSendsWire == BackendSends({"closed"}, {"no_such_tool"})
NextWire ==
    \/ IdleCheck \/ ResetBegin \/ ResetDisconnect \/ ResetConnectOk
    \/ ConnectBegin \/ ConnectOk \/ TickSleep
    \/ ReconnectBegin \/ ReconnectOpenOk
    \/ RecvClosed \/ RecvToolInline \/ BackendSendsWire
    \/ PressDoubleClick \/ WaitReleaseDone
    \/ PressStart \/ HoldSendsChunk \/ ReleaseEndsTurn \/ ButtonChanges
    \/ TextNotify

SpecWire == Init /\ [][NextWire]_vars

\* an incoming call answered with the button, next to push-to-talk: the
\* accept flow, the connection coming up, teardown, and turns
NextAccept ==
    \/ IdleCheck \/ ConnectBegin \/ ConnectOk
    \/ ButtonChanges \/ PressAccepts \/ AcceptOffer \/ ConnectionConnected
    \/ EndVideocall \/ CleanupCall \/ EndCallClose
    \/ PressStart \/ HoldSendsChunk \/ ReleaseEndsTurn

SpecAccept == Init /\ [][NextAccept]_vars

\* the peer-connection side of a call: an outgoing and an incoming call
\* setup, remote candidates and teardown at any moment
NextIce ==
    \/ IceCandidateArrives \/ StartOutgoing \/ OutgoingOffer \/ HandleAnswer
    \/ AcceptCreate \/ AcceptOffer \/ FlushNext
    \/ ConnectionConnected \/ EndVideocall \/ CleanupCall \/ EndCallClose

SpecIce == Init /\ [][NextIce]_vars

\* an incoming call with a peer whose candidate strings may be malformed:
\* candidates before and after the offer is applied, the flush of the
\* queue, and the cleanup of the call at any moment
NextParse ==
    \/ IceCandidateArrivesAny \/ AcceptCreate \/ AcceptOffer \/ FlushNext
    \/ ConnectionConnected \/ CleanupCall \/ EndCallClose

SpecParse == Init /\ [][NextParse]_vars

\* the speaker: the calls of NextIce, and a music_play tool call once the
\* client is connected
NextOutput ==
    \/ NextIce
    \/ IdleCheck \/ ConnectBegin \/ ConnectOk \/ MusicStarts

SpecOutput == Init /\ [][NextOutput]_vars

\* the signaling record: the writes of the two devices and the poll thread
\* accept_incoming_call up to the point where it has emptied the pending
\* slot (main.py 377-379); the poll thread runs beside the event loop, so
\* an iteration of it can fall between this step and AcceptTrack
AcceptTake ==
    /\ pending_incoming_call # 0
    /\ accepting = 0
    /\ accepting' = pending_incoming_call
    /\ pending_incoming_call' = 0
    /\ UNCHANGED << db, statusLog, nextSession, nextSigCand,
                    current_session_id >>
    /\ UNCHANGED pollVars
    /\ UNCHANGED << sessionVars, managerVars, outputVars >>

\* the accept_call of that run (main.py 393, firebase_signaling.py
\* 108-111), after the audio streams were stopped
AcceptTrack ==
    /\ accepting # 0
    /\ ~InLog(accepting, "answering")
    /\ current_session_id' = accepting
    /\ UpdateStatus(accepting, "answering")
    /\ UNCHANGED << nextSession, nextSigCand, pending_incoming_call,
                    accepting >>
    /\ UNCHANGED pollVars
    /\ UNCHANGED << sessionVars, managerVars, outputVars >>

\* one scheduled run of accept_incoming_call on the event loop, up to the
\* await of setRemoteDescription inside handle_offer: it returns when the
\* pending slot is empty, else it takes the pending call whatever event
\* scheduled the run, stops the audio streams, writes the status, and
\* creates the peer connection and the local media
AcceptRun ==
    /\ scheduled # << >>
    /\ scheduled' = Tail(scheduled)
    /\ IF pending_incoming_call = 0
       THEN UNCHANGED << db, statusLog, current_session_id,
                         pending_incoming_call, accepting, managerVars,
                         outputVars >>
       ELSE /\ flowPos = "none"
            /\ accepting' = pending_incoming_call
            /\ pending_incoming_call' = 0
            /\ current_session_id' = pending_incoming_call
            /\ UpdateStatus(pending_incoming_call, "answering")
            /\ NewPeerConnection
            /\ flowTarget' = pc'
            /\ flowPos' = "offer"
            /\ output_stream' = FALSE
            /\ suspended' = (suspended \/ output_stream)
            /\ UNCHANGED << pcOffered, pcRemote, is_in_call, pendingIce,
                            nextCand, applied, outPos, outTarget, flushIdx,
                            endPos, endCalls, stopCount, closeCount,
                            remote_audio >>
    /\ UNCHANGED << nextSession, nextSigCand, iceDropped, dial, failures >>
    /\ UNCHANGED pollVars
    /\ UNCHANGED << running, mainPc, now, delay, nextConn, clientVars,
                    readerVars, inputVars, playerVars, firstSent,
                    candidateStr, resampled >>

\* VideoCallStart.execute, called by _handle_event on the event loop:
\* with a call going on it reports success at once; else
\* start_videocall_from_raspi hands _start_outgoing_call to the loop it is
\* running on and waits for the result with future.result(timeout=5).
\* The loop cannot run the coroutine while its thread waits, the wait ends
\* in TimeoutError after five seconds, the tool reports failure, and the
\* coroutine stays scheduled.
VideocallStartTool ==
    /\ dial.reported = "none"
    /\ IF is_in_call
       THEN /\ dial' = [dial EXCEPT !.reported = "ok"]
            /\ now' = now
       ELSE /\ dial' = [reported |-> "fail", queued |-> TRUE]
            /\ now' = (IF now + 5 <= MaxNow THEN now + 5 ELSE MaxNow)
    /\ UNCHANGED << iceDropped, scheduled, failures >>
    /\ UNCHANGED << running, mainPc, delay, nextConn, clientVars,
                    readerVars, inputVars, playerVars, firstSent,
                    candidateStr, resampled >>
    /\ UNCHANGED << managerVars, signalVars, outputVars >>

\* the scheduled _start_outgoing_call when the loop is free again, up to
\* the await inside create_offer: peer connection, local media, and the
\* call record of create_call
DialRun ==
    /\ dial.queued
    /\ dial' = [dial EXCEPT !.queued = FALSE]
    /\ outPos = "none"
    /\ NewPeerConnection
    /\ outPos' = "offer"
    /\ outTarget' = pc'
    /\ nextSession <= MaxSessions
    /\ db' = [db EXCEPT ![nextSession] = NewRecord(device_id, peer_id)]
    /\ statusLog' = [statusLog EXCEPT ![nextSession] = << "calling" >>]
    /\ current_session_id' = nextSession
    /\ nextSession' = nextSession + 1
    /\ UNCHANGED << pcOffered, pcRemote, is_in_call, pendingIce, nextCand,
                    applied, flowPos, flowTarget, flushIdx, endPos,
                    endCalls, stopCount, closeCount >>
    /\ UNCHANGED << nextSigCand, pending_incoming_call, accepting >>
    /\ UNCHANGED pollVars
    /\ UNCHANGED outputVars
    /\ UNCHANGED << iceDropped, scheduled, failures >>
    /\ UNCHANGED << running, mainPc, now, delay, nextConn, clientVars,
                    readerVars, inputVars, playerVars, firstSent,
                    candidateStr, resampled >>

\* a videocall_start request of the backend and the outgoing call it
\* leads to, with the answer of the peer and the clock
NextDial ==
    \/ VideocallStartTool \/ DialRun \/ OutgoingOffer \/ SendOffer
    \/ SendsCandidate \/ PeerAccepts \/ PeerSendsAnswer
    \/ PollFetch \/ PollProcess \/ Advance

SpecDial == Init /\ [][NextDial]_vars

\* music that plays to the end of its track, the turns of the user and
\* the spoken replies of the backend
NextTrack ==
    \/ IdleCheck \/ ConnectBegin \/ ConnectOk
    \/ MusicStarts \/ TrackEnds
    \/ ButtonChanges \/ PressStart \/ HoldSendsChunk \/ ReleaseEndsTurn
    \/ BackendRepliesAudio \/ RecvAudioDelta

SpecTrack == Init /\ [][NextTrack]_vars

\* a run of accept_incoming_call in which create_peer_connection returns
\* False (main.py 396-398): the streams were stopped and the status
\* written before, self.pc was not assigned, _restart_audio_handler
AcceptCreateFails ==
    /\ scheduled # << >> /\ pending_incoming_call # 0
    /\ flowPos = "none"
    /\ scheduled' = Tail(scheduled)
    /\ failures' = failures + 1
    /\ accepting' = 0
    /\ pending_incoming_call' = 0
    /\ current_session_id' = pending_incoming_call
    /\ UpdateStatus(pending_incoming_call, "answering")
    /\ RestartAudioHandler
    /\ UNCHANGED << managerVars, remote_audio >>
    /\ UNCHANGED << nextSession, nextSigCand, iceDropped, dial >>
    /\ UNCHANGED pollVars
    /\ UNCHANGED << running, mainPc, now, delay, nextConn, clientVars,
                    readerVars, inputVars, playerVars, firstSent,
                    candidateStr, resampled >>

\* start_local_media() returns False: the camera or the microphone could
\* not be started; a track object that was assigned before its start()
\* raised stays on the manager
MediaFails ==
    /\ nextPc <= MaxPcs
    /\ pc' = nextPc
    /\ nextPc' = nextPc + 1
    /\ tracks' \in BOOLEAN

\* a run of accept_incoming_call in which start_local_media returns False
\* (main.py 408-412): resume_lifelog, _restart_audio_handler, return
AcceptMediaFails ==
    /\ scheduled # << >> /\ pending_incoming_call # 0
    /\ flowPos = "none"
    /\ scheduled' = Tail(scheduled)
    /\ failures' = failures + 1
    /\ accepting' = 0
    /\ pending_incoming_call' = 0
    /\ current_session_id' = pending_incoming_call
    /\ UpdateStatus(pending_incoming_call, "answering")
    /\ MediaFails
    /\ RestartAudioHandler
    /\ UNCHANGED << pcOffered, pcRemote, is_in_call, pendingIce, nextCand,
                    applied, outPos, outTarget, flowPos, flowTarget,
                    flushIdx, endPos, endCalls, stopCount, closeCount,
                    remote_audio >>
    /\ UNCHANGED << nextSession, nextSigCand, iceDropped, dial >>
    /\ UNCHANGED pollVars
    /\ UNCHANGED << running, mainPc, now, delay, nextConn, clientVars,
                    readerVars, inputVars, playerVars, firstSent,
                    candidateStr, resampled >>

\* the scheduled _start_outgoing_call in which start_local_media returns
\* False (main.py 188-191): resume_lifelog, return; no record is created
DialMediaFails ==
    /\ dial.queued
    /\ dial' = [dial EXCEPT !.queued = FALSE]
    /\ outPos = "none"
    /\ failures' = failures + 1
    /\ MediaFails
    /\ UNCHANGED << pcOffered, pcRemote, is_in_call, pendingIce, nextCand,
                    applied, outPos, outTarget, flowPos, flowTarget,
                    flushIdx, endPos, endCalls, stopCount, closeCount >>
    /\ UNCHANGED << signalVars, outputVars >>
    /\ UNCHANGED << iceDropped, scheduled >>
    /\ UNCHANGED << running, mainPc, now, delay, nextConn, clientVars,
                    readerVars, inputVars, playerVars, firstSent,
                    candidateStr, resampled >>

\* call setups that succeed or fail at the peer connection or at the
\* local media, for an incoming and for an outgoing call
NextFail ==
    \/ PeerCreatesCall \/ PeerSendsOffer \/ PollFetch \/ PollProcess
    \/ AcceptRun \/ AcceptCreateFails \/ AcceptMediaFails \/ AcceptOffer
    \/ VideocallStartTool \/ DialRun \/ DialMediaFails \/ OutgoingOffer

SpecFail == Init /\ [][NextFail]_vars

\* calls that come in while the device answers or is in a call: the
\* callers, the poll thread, the scheduled accept runs and the call setup
NextBusy ==
    \/ CallerCreatesCall \/ PeerSendsOffer \/ PollFetch \/ PollProcess
    \/ AcceptRun \/ AcceptOffer \/ ConnectionConnected

SpecBusy == Init /\ [][NextBusy]_vars

\* an incoming call with its candidates, the poll thread, and the two
\* halves of accept_incoming_call
NextRace ==
    \/ PeerCreatesCall \/ PeerSendsOffer \/ PeerSendsCandidate
    \/ PollFetch \/ PollProcess \/ AcceptTake \/ AcceptTrack

SpecRace == Init /\ [][NextRace]_vars

NextSignal ==
    \/ CreateCall \/ SendOffer \/ PeerCreatesCall \/ PeerSendsOffer
    \/ PeerAccepts \/ PeerSendsAnswer \/ PeerConnected
    \/ PeerSendsCandidate \/ SendsCandidate \/ PeerEnds \/ SignalingEndCall
    \/ AcceptCall \/ SendAnswer \/ AnswerConnected \/ AcceptFails
    \/ PollFetch \/ PollProcess

SpecSignal == Init /\ [][NextSignal]_vars

\* an outgoing call that the peer never answers: the call is placed, the
\* device publishes its candidates, the poll thread polls, the clock moves
\* on, and the user may hang up
NextRing ==
    \/ StartOutgoing \/ OutgoingOffer \/ CreateCall \/ SendOffer
    \/ SendsCandidate \/ PollFetch \/ PollProcess \/ Advance
    \/ SignalingEndCall

SpecRing == Init /\ [][NextRing]_vars

\* the poll thread over the days: the peer places calls, publishes
\* candidates and ends the calls, the device accepts and ends them, the
\* poll thread polls and the clock moves on.  poll_loop runs
\* "while self.running" with a sleep of 0.3 s between two polls, so a poll
\* that can start does start and a fetched snapshot is processed.
NextDay ==
    \/ PeerCreatesCall \/ PeerSendsOffer \/ PeerSendsCandidate \/ PeerEnds
    \/ AcceptCall \/ SignalingEndCall
    \/ PollFetch \/ PollProcess \/ Advance

SpecDay ==
    /\ Init /\ [][NextDay]_vars
    /\ WF_vars(PollFetch) /\ WF_vars(PollProcess) /\ WF_vars(Advance)

\* one call of resample_audio on a buffer and a pair of rates
ResampleCall ==
    /\ resampled = NotResampled
    /\ \E data \in SampleSeqs, rates \in RatePairs :
          resampled' = [data |-> data, from_rate |-> rates[1],
                        to_rate |-> rates[2],
                        out |-> resample_audio(data, rates[1], rates[2])]
    /\ UNCHANGED << running, mainPc, now, delay, nextConn, clientVars,
                    readerVars, inputVars, otherVars, firstSent,
                    candidateStr, lateVars >>

SpecResample == Init /\ [][ResampleCall]_vars

\* ---------------------------------------------------------------- C1
\* C1: every reconnect attempt adds exactly 1 to reconnect_count; no
\* transport is opened once the count is above MAX_RECONNECT_ATTEMPTS, and
\* in that case the engine has stopped running (the 6th attempt opens
\* nothing).
C1_AttemptStep ==
    /\ (mainPc = "dispatch" /\ ~is_connected /\ needs_reconnect
        /\ mainPc' # mainPc)
          => reconnect_count' = reconnect_count + 1
    /\ (reconnect_count' # reconnect_count /\ reconnect_count' # 0)
          => reconnect_count' = reconnect_count + 1
    /\ (ws' # ws /\ ws' # 0) => reconnect_count' <= MAX_RECONNECT_ATTEMPTS
    /\ (mainPc' \in {"reconnect_sleep", "connecting", "reset_connect"})
          => reconnect_count' <= MAX_RECONNECT_ATTEMPTS
C1_Stopped ==
    reconnect_count > MAX_RECONNECT_ATTEMPTS =>
        /\ reconnect_count = MAX_RECONNECT_ATTEMPTS + 1
        /\ ~running
        /\ ~is_connected
        /\ mainPc \in {"check", "done"}
C1_ReconnectLimit == [][C1_AttemptStep]_vars /\ []C1_Stopped
C1_Witness ==
    /\ reconnect_count = MAX_RECONNECT_ATTEMPTS + 1
    /\ mainPc = "done" /\ ~running /\ delay = 32

\* ---------------------------------------------------------------- C2
\* C2: reconnect_count goes back to 0 only in a step in which the reader
\* took an event off the current connection and handled it without failing;
\* a step that opens a transport leaves the count as it is.
C2_HandledStep ==
    /\ inbox # << >>
    /\ Head(inbox).type \notin {"malformed", "closed"}
    /\ inbox' = Tail(inbox)
    /\ readerPc = "recv" /\ readerPc' = "recv"
    /\ is_connected /\ is_connected' /\ ws' = ws
C2_ResetStep ==
    /\ (reconnect_count # 0 /\ reconnect_count' = 0) => C2_HandledStep
    /\ (ws' # ws /\ ws' # 0) => reconnect_count' = reconnect_count
C2_ResetAfterEvent == [][C2_ResetStep]_vars
C2_Witness ==
    /\ delay > 0 /\ reconnect_count = 0
    /\ is_connected /\ readerPc = "recv"

\* ---------------------------------------------------------------- C3
\* C3: while reconnect() sleeps before reopening, the wait is
\* min(RECONNECT_DELAY_BASE ^ reconnect_count, 60) for the count as
\* incremented by this attempt.
C3_Backoff ==
    mainPc = "reconnect_sleep" =>
        delay = Min(Power(RECONNECT_DELAY_BASE, reconnect_count), 60)
C3_Witness ==
    /\ mainPc = "reconnect_sleep"
    /\ reconnect_count = MAX_RECONNECT_ATTEMPTS /\ delay = 32

\* ---------------------------------------------------------------- C4
\* C4: the idle check of a main-loop tick sets needs_session_reset exactly
\* when the client is connected, last_response_time is set, voice-message
\* mode is not active (off, or on but timed out, which the check turns off)
\* and now - last_response_time >= SESSION_RESET_TIMEOUT.
C4_ModeActive ==
    /\ voice_message_mode
    /\ ~(/\ voice_message_timestamp # 0
         /\ now - voice_message_timestamp > VOICE_MESSAGE_TIMEOUT)
C4_Cond ==
    /\ is_connected
    /\ last_response_time # 0
    /\ ~C4_ModeActive
    /\ now - last_response_time >= SESSION_RESET_TIMEOUT
C4_TickStep ==
    (mainPc = "check" /\ mainPc' = "dispatch") =>
        IF C4_Cond
        THEN needs_session_reset' /\ resetCause' = "idle"
        ELSE /\ needs_session_reset' = needs_session_reset
             /\ resetCause' = resetCause
C4_IdleCheck == [][C4_TickStep]_vars
C4_Witness ==
    /\ mainPc = "dispatch" /\ resetCause = "idle" /\ needs_session_reset
    /\ Len(toolResults) > 0 /\ toolResults[1].message = MSG_CAPABILITY_OK
    /\ ~voice_message_mode

\* ---------------------------------------------------------------- C5
\* C5 as stated: a session reset is begun only when the client is
\* connected, the idle check asked for it (a response had completed and the
\* idle time had reached SESSION_RESET_TIMEOUT) and voice-message mode is
\* not active.
C5_ResetBegins == mainPc = "dispatch" /\ mainPc' = "reset_disconnect"
C5_OriginalStep ==
    C5_ResetBegins => (is_connected /\ resetCause = "idle" /\ ~C4_ModeActive)
C5_Original == [][C5_OriginalStep]_vars
\* C5 amended: a session reset is begun only when the client is connected
\* and some statement has asked for it; when the one that asked is the idle
\* check, voice-message mode is not active.
C5_AmendedStep ==
    C5_ResetBegins =>
        /\ is_connected /\ needs_session_reset
        /\ resetCause \in {"idle", "double_click", "voice_message", "music"}
        /\ (resetCause = "idle" => ~C4_ModeActive)
C5_ResetOnlyOnRequest == [][C5_AmendedStep]_vars
C5_Witness ==
    /\ mainPc = "reset_disconnect" /\ ~needs_session_reset
    /\ C4_ModeActive /\ last_response_time = 0

\* ---------------------------------------------------------------- C6
\* C6: a tool call whose handler raises is answered with the fixed generic
\* failure message, and handling it leaves the session as it was: the
\* reader goes on receiving, the client stays connected on the same socket
\* and no reconnect is asked for.
C6_Results == { toolResults[i] : i \in 1..Len(toolResults) }
C6_InlineHandled ==
    /\ readerPc = "recv" /\ inbox # << >> /\ inbox' = Tail(inbox)
    /\ Head(inbox).type = "function_call"
    /\ Head(inbox).name \notin SlowTools
C6_SlowHandled ==
    /\ readerPc = "tool" /\ awaiting \in workers /\ awaiting \notin workers'
    /\ mainPc' = mainPc
C6_Answered(id) ==
    /\ Len(toolResults') = Len(toolResults) + 1
    /\ toolResults'[Len(toolResults')].req = id
    /\ readerPc' = "recv"
    /\ is_connected' /\ ws' = ws /\ ws # 0
    /\ ~needs_reconnect' /\ reconnect_count' = 0
C6_Step ==
    /\ C6_InlineHandled => C6_Answered(Head(inbox).call_id)
    /\ C6_SlowHandled => C6_Answered(awaiting.call_id)
C6_Generic ==
    \A r \in C6_Results :
        /\ r.raised => r.message = MSG_GENERIC
        /\ r.message \in {MSG_GENERIC, MSG_NOT_FOUND, MSG_CAPABILITY_OK}
C6_HandlerError == [][C6_Step]_vars /\ []C6_Generic
C6_Witness ==
    /\ \E r \in C6_Results : r.raised /\ r.message = MSG_GENERIC
    /\ Len(toolResults) = MaxCalls
    /\ toolResults[MaxCalls].raised
    /\ is_connected /\ readerPc = "recv" /\ ~needs_reconnect
    /\ nextConn = 2

\* ---------------------------------------------------------------- C7
\* C7 as stated: while a slow capability is executing for the reader that
\* dispatched it, the reader is receiving.
C7_SlowExecuting == readerPc = "tool" /\ awaiting \in workers
C7_Extends(a, b) == Len(b) >= Len(a) /\ SubSeq(b, 1, Len(a)) = a
C7_Step ==
    (C7_SlowExecuting /\ awaiting \in workers') =>
        /\ (inbox # inbox' => C7_Extends(inbox, inbox') /\ readerPc' = "tool")
        /\ toolResults' = toolResults
        /\ last_response_time' = last_response_time
        /\ readerPc' \in {"tool", "done"}
C8_Sent(c) == \E r \in C6_Results : r.req = c.call_id
C8_Original == \A c \in finished : C8_Sent(c)
\* C8 amended: a dispatched slow call always runs to completion; its result
\* is sent, on the connection the request came in on, exactly when its
\* reader has not been cancelled (session reset, shutdown) by then.
C8_Ids(S) == { c.call_id : c \in S }
C8_Inv ==
    /\ \A c \in finished : c.orphan <=> ~C8_Sent(c)
    /\ \A c \in workers : ~C8_Sent(c)
    /\ \A r \in C6_Results : r.sameConn
C8_RunsOn == C8_Ids(workers) \subseteq C8_Ids(workers') \cup C8_Ids(finished')
C8_SlowCallOutcome == []C8_Inv /\ [][C8_RunsOn]_vars
C8_Witness ==
    \E c \in finished :
        /\ c.orphan /\ ~C8_Sent(c)
        /\ is_connected /\ ws # c.conn /\ readerPc = "recv"

\* ---------------------------------------------------------------- C9
\* C9: every result sent carries the call_id of the request whose
\* execution produced it, that request has been issued, and no two results
\* answer the same request.
C9_CallId ==
    /\ \A i \in 1..Len(toolResults) :
          /\ toolResults[i].call_id = toolResults[i].req
          /\ toolResults[i].req \in 1..(nextCall - 1)
    /\ \A i, j \in 1..Len(toolResults) :
          toolResults[i].req = toolResults[j].req => i = j
C9_Witness ==
    /\ Len(toolResults) = MaxCalls
    /\ \E c \in finished : ~c.orphan /\ toolResults[MaxCalls].call_id = c.call_id
    /\ toolResults[1].call_id # toolResults[MaxCalls].call_id

\* --------------------------------------------------------------- C10
\* C10: every audio chunk handed to the socket goes out on the connection
\* on which the bracket open at that moment was started; none goes out
\* with no bracket open or on a connection that saw no start.
C10_Bracketed == \A p \in audioSent : p.bracket # 0 /\ p.bracket = p.conn

\* --------------------------------------------------------------- C11
\* C11: once the remote description is on the current peer connection and
\* no flush of the queue is under way, no remote candidate is left in the
\* pending queue, and no candidate has been handed to a peer connection
\* more than once.
C11_AppliedCount(c) ==
    Cardinality({i \in 1..Len(applied) : applied[i].cand = c})
C11_Flushed ==
    /\ (pc # 0 /\ pc \in pcRemote /\ flowPos # "flush") => pendingIce = << >>
    /\ \A c \in 1..(nextCand - 1) : C11_AppliedCount(c) <= 1

\* --------------------------------------------------------------- C12
\* C12: a peer connection is handed the remote candidates in the order
\* in which they arrived: of two candidates handed to the same connection
\* the one handed over first also arrived first.
C12_InOrder ==
    \A i, j \in 1..Len(applied) :
        (i < j /\ applied[i].pc = applied[j].pc)
            => applied[i].cand < applied[j].cand

\* --------------------------------------------------------------- C14
\* C14: whenever addIceCandidate is invoked on a peer connection, a remote
\* description has already been applied to that same peer connection.
C14_RemoteFirst == \A i \in 1..Len(applied) : applied[i].remote

\* --------------------------------------------------------------- C18
\* C18: an end_call that starts after an earlier one has left the manager
\* idle (no peer connection, no local tracks, empty pending queue, not in
\* a call) stops no track, closes no connection, returns at once and
\* leaves the manager idle.
C18_Idle == pc = 0 /\ ~tracks /\ pendingIce = << >> /\ ~is_in_call
C18_Step ==
    (endCalls >= 1 /\ endCalls' = endCalls + 1 /\ C18_Idle /\ endPos = "idle")
        => /\ C18_Idle'
           /\ endPos' = "idle"
           /\ stopCount' = stopCount
           /\ closeCount' = closeCount
C18_Idempotent == [][C18_Step]_vars
C18_Witness ==
    /\ endCalls = 2 /\ endPos = "idle" /\ C18_Idle
    /\ stopCount = 1 /\ closeCount = 1
    /\ nextPc = 2 /\ nextCand = 1

\* --------------------------------------------------------------- C13
\* C13: the poll loop fires at most one candidate event for an entry of
\* the other side's candidate list, however often polls return it, and
\* none for an entry of the local side's own list.
C13_OwnCandidates(rec) ==
    IF rec.caller = device_id THEN rec.caller_candidates
    ELSE rec.callee_candidates
C15_Offered(s) ==
    /\ snapshot[s].callee = device_id
    /\ snapshot[s].status = "calling"
    /\ snapshot[s].offer
C15_Step ==
    \A s \in Sessions :
        (pollPc = "fetched" /\ pollPc' = "sleep" /\ C15_Offered(s))
            => incomingFired'[s] = 1
C15_IncomingOnce == [][C15_Step]_vars

\* --------------------------------------------------------------- C16
\* C16: the status values written to a call record, the ended ones left
\* aside, are calling, answering, connected in this order; connected is
\* written only after the answer, so a caller that observes connected
\* finds the answer in the same record; and a poll of the caller that
\* has processed a record with an answer leaves the answer-received event
\* fired exactly once for it.
C16_Order == << "calling", "answering", "connected" >>
C16_NotEnded(st) == st # "ended"
C16_Written(s) == SelectSeq(statusLog[s], C16_NotEnded)
C16_Inv ==
    \A s \in Sessions :
        /\ Len(C16_Written(s)) <= 3
        /\ \A i \in 1..Len(C16_Written(s)) : C16_Written(s)[i] = C16_Order[i]
        /\ InLog(s, "connected") => db[s].answer
        /\ snapshot[s].status = "connected" => snapshot[s].answer
        /\ answerFired[s] <= 1
C16_Step ==
    \A s \in Sessions :
        (/\ pollPc = "fetched" /\ pollPc' = "sleep"
         /\ snapshot[s].caller = device_id /\ snapshot[s].answer)
            => answerFired'[s] = 1
C16_AcceptedCall == []C16_Inv /\ [][C16_Step]_vars
C16_Witness ==
    \E s \in Sessions :
        /\ db[s].caller = device_id
        /\ statusLog[s] = C16_Order
        /\ pollPc = "fetched" /\ snapshot[s].status = "connected"
        /\ answerFired[s] = 1

\* --------------------------------------------------------------- C17
\* C17: a poll that processes a record with status ended fires call-ended
\* for it exactly when the record is the tracked session, and clears the
\* tracking in the same step; call-ended is fired in no other step, and
\* never twice for a session.
C17_PollStep == pollPc = "fetched" /\ pollPc' = "sleep"
C17_Observed(s) == snapshot[s].status = "ended" /\ current_session_id = s
C17_Step ==
    \A s \in Sessions :
        /\ endedFired'[s] # endedFired[s]
              => /\ C17_PollStep /\ C17_Observed(s)
                 /\ endedFired'[s] = endedFired[s] + 1
        /\ (C17_PollStep /\ C17_Observed(s))
              => /\ endedFired'[s] = endedFired[s] + 1
                 /\ current_session_id' = 0
C17_Inv == \A s \in Sessions : endedFired[s] <= 1
C17_EndedOnce == []C17_Inv /\ [][C17_Step]_vars
C17_Witness ==
    \E s \in Sessions :
        /\ endedFired[s] = 1 /\ current_session_id = 0
        /\ pollPc = "fetched" /\ snapshot[s].status = "ended"

\* --------------------------------------------------------------- C19
\* C19: once a call has been torn down (no peer connection is left, no
\* teardown and no accept is under way), the conversation output stream
\* that accept_incoming_call closed is open again.
C19_TornDown == pc = 0 /\ endPos = "idle" /\ flowPos = "none" /\ endCalls > 0
C19_Reopened == (suspended /\ C19_TornDown) => output_stream

\* --------------------------------------------------------------- C20
\* C20: of the conversation output stream, the remote-audio stream of a
\* call and the music process, no two are active at the same time.
C20_OneOwner ==
    /\ ~(output_stream /\ music)
    /\ ~(output_stream /\ remote_audio)
    /\ ~(music /\ remote_audio)


\* --------------------------------------------------------------- C21
Sent(sig, seq) == \E i \in DOMAIN seq : seq[i] = sig

C21_PressOnMusic ==
    is_music_active /\ inputPc = "loop" /\ inputPc' = "music_wait"

C21_Step ==
    [][ /\ C21_PressOnMusic =>
            /\ killParity' # killParity
            /\ Sent("SIGTERM", killSignals')
            /\ ~music' /\ mpv' = "none"
            /\ ~is_recording'
        /\ (is_recording' /\ ~is_recording) => ~music' ]_vars

C21_Waiting == inputPc = "music_wait" => ~music /\ ~is_recording

C22_Release == killParity' # killParity

C22_Shapes == { << >>, <<"SIGTERM">>, <<"SIGCONT", "SIGTERM">>,
                <<"SIGTERM", "SIGKILL">>,
                <<"SIGCONT", "SIGTERM", "SIGKILL">> }

C23_SessionPaused ==
    [][ (pc # 0 /\ pc' # 0) =>
          /\ audioSent' = audioSent
          /\ ~(is_recording' /\ ~is_recording) ]_vars

\* --------------------------------------------------------------- C24
C24_Elapsed == now - voice_message_timestamp

\* the value of the check is the mode within its window
C24_Value ==
    CheckVoiceMessageTimeout <=>
        (voice_message_mode /\ C24_Elapsed <= VOICE_MESSAGE_TIMEOUT)

\* a press goes to the voice-message recording only inside the window, a
\* turn starts only with the mode off and its timestamp cleared, and an
\* idle check that makes the call with the window over clears both
C24_Step ==
    [][ /\ (inputPc = "loop" /\ inputPc' = "vm_start") =>
              (voice_message_mode /\ C24_Elapsed <= VOICE_MESSAGE_TIMEOUT)
        /\ (is_recording' /\ ~is_recording /\ inputPc' = "loop") =>
              (~voice_message_mode' /\ voice_message_timestamp' = 0)
        /\ (VoiceMessageExpired /\ mainPc = "check" /\ mainPc' = "dispatch"
              /\ last_response_time # 0 /\ is_connected) =>
              (~voice_message_mode' /\ voice_message_timestamp' = 0) ]_vars

\* C24: check_voice_message_timeout() is true exactly when the mode is on
\* and at most VOICE_MESSAGE_TIMEOUT has passed since it was entered; once
\* more has passed the check clears mode and timestamp, and the press that
\* makes it starts a normal turn, not a voice-message recording
C24_Timeout == []C24_Value /\ C24_Step

\* a turn is being recorded after the window of a voice-message mode that
\* was never used ran out
C24_Witness ==
    /\ is_recording /\ inputPc = "loop" /\ activity.open
    /\ ~voice_message_mode /\ voice_message_timestamp = 0
    /\ \E i \in DOMAIN toolResults : toolResults[i].message = MSG_CAPABILITY_OK
    /\ resetCause = "none"
    /\ now > 1 + VOICE_MESSAGE_TIMEOUT

\* --------------------------------------------------------------- C25
\* the mode is on only with its timestamp set
C25_Stamped == voice_message_mode => voice_message_timestamp # 0

\* the reader is handling the call of the tool whose result carries
\* start_voice_recording
C25_FlaggedResult ==
    /\ readerPc = "recv" /\ inbox # << >>
    /\ Head(inbox).type = "function_call"
    /\ ExecuteResult(Head(inbox).name, "ok").flag

C25_Step ==
    [][ /\ (voice_message_mode' /\
            (~voice_message_mode
               \/ voice_message_timestamp' # voice_message_timestamp)) =>
              (C25_FlaggedResult /\ voice_message_timestamp' = now)
        /\ (voice_message_mode /\ ~voice_message_mode') =>
              (VoiceMessageExpired \/ inputPc = "vm_start")
        /\ (ws' # ws) =>
              UNCHANGED << voice_message_mode, voice_message_timestamp >>
      ]_vars

\* C25: voice-message mode is entered only when the reader handles a tool
\* result with the voice-recording flag, left only by the timeout check or
\* by the start of the voice-message recording, never on without its
\* timestamp, and untouched by every step that closes or opens a transport
C25_ModeLifecycle == []C25_Stamped /\ C25_Step

\* the mode is on after a reconnect: no event has been handled since the
\* transport was opened again, so the mode was entered before it
C25_Witness ==
    /\ voice_message_mode /\ voice_message_timestamp # 0
    /\ is_connected /\ ws >= 2 /\ mainPc = "check"
    /\ reconnect_count > 0

\* --------------------------------------------------------------- C26
C26_Live(p) == p \in {"recv", "tool"}

\* main_async calls asyncio.create_task(client.receive_messages())
C26_Creates ==
    \/ mainPc = "reset_connect" /\ mainPc' # "reset_connect"
    \/ /\ mainPc \in {"connecting", "reconnect_sleep"} /\ mainPc' = "check"
       /\ ~C26_Live(readerPc) /\ C26_Live(readerPc')

\* the reader takes an event off the socket it reads
C26_Takes == ws' = ws /\ ws # 0 /\ Len(inbox') < Len(inbox)

C26_Step ==
    [][ /\ C26_Creates => ~C26_Live(readerPc)
        /\ C26_Takes => (readerPc = "recv" /\ inbox' = Tail(inbox)) ]_vars

\* a reader that has not ended reads the socket the client holds
C26_OnTransport == C26_Live(readerPc) => (is_connected /\ ws # 0)

C27_HandshakeFirst ==
    \A c \in 1..MaxConns :
        c < nextConn => firstSent[c] = "session.update"

\* audio of a turn and a tool result have gone out on the connection that
\* a reset opened
C27_Witness ==
    /\ ws >= 2 /\ is_connected
    /\ \E a \in audioSent : a.conn = ws
    /\ toolResults # << >>
    /\ firstSent[ws] = "session.update"

\* --------------------------------------------------------------- C28
\* the malformed strings the claim lists: empty, fewer than eight fields,
\* a non-numeric component, priority or port
C28_MalformedStrings ==
    { EmptyString, SevenFields, BadComponent, BadPriority, BadPort }

C28_State == << pc, nextPc, pcOffered, pcRemote, tracks, is_in_call,
    outPos, outTarget, flowPos, flowTarget, endPos, endCalls, stopCount,
    closeCount >>

\* the peer connection has been handed no candidate with such a string
C28_NothingHanded ==
    \A i \in 1..Len(applied) :
        candidateStr[applied[i].cand] \notin C28_MalformedStrings

C28_Step ==
    [][ /\ ( /\ nextCand' = nextCand + 1
             /\ candidateStr'[nextCand] \in C28_MalformedStrings )
           => /\ applied' = applied
              /\ UNCHANGED C28_State
        /\ ( /\ flushIdx' = flushIdx + 1
             /\ candidateStr[pendingIce[flushIdx']] \in C28_MalformedStrings )
           => /\ applied' = applied
              /\ pendingIce' = pendingIce
              /\ flowPos' = "flush"
              /\ flowPos = "flush" => UNCHANGED C28_State
        /\ ( /\ flushIdx' = flushIdx + 1
             /\ candidateStr[pendingIce[flushIdx']] \in { WellFormed, Relayed }
             /\ pc # 0 )
           => /\ applied' = Append(applied,
                     [pc |-> pc, cand |-> pendingIce[flushIdx'],
                      remote |-> pc \in pcRemote'])
              /\ pendingIce' = pendingIce
        /\ ( flowPos = "flush" /\ flowPos' # "flush" )
           => flushIdx >= Len(pendingIce)
      ]_vars

\* C28: a candidate whose string is empty, has fewer than eight fields or
\* has a non-numeric component, priority or port is never handed to the
\* peer connection; handling it, on arrival or in the flush of the queue,
\* leaves the call state as it was; the flush goes on to the candidates
\* queued behind it, hands over each well-formed one and ends only when
\* no queued candidate is left
C28_MalformedDropped == []C28_NothingHanded /\ C28_Step

\* in a flush, a malformed candidate was skipped and a well-formed one
\* queued behind it has been handed to the peer connection
C28_Witness ==
    /\ flowPos = "flush" /\ flushIdx >= 2 /\ flushIdx <= Len(pendingIce)
    /\ \E i, j \in 1..flushIdx :
        /\ i < j
        /\ candidateStr[pendingIce[i]] \in C28_MalformedStrings
        /\ candidateStr[pendingIce[j]] \in { WellFormed, Relayed }
        /\ \E k \in 1..Len(applied) : applied[k].cand = pendingIce[j]
        /\ \A k \in 1..Len(applied) : applied[k].cand # pendingIce[i]

\* --------------------------------------------------------------- C29
\* the record of an outgoing call that is still unanswered
C29_Ringing(s) == db[s].caller = device_id /\ db[s].status = "calling"

\* C29: an outgoing call that stays unanswered is abandoned once the
\* ring timeout has elapsed: no record of an outgoing call is in status
\* calling more than VIDEOCALL_RING_TIMEOUT seconds after it was created
C29_RingTimeout ==
    \A s \in Sessions :
        C29_Ringing(s) => now - db[s].created_at <= VIDEOCALL_RING_TIMEOUT

\* --------------------------------------------------------------- C30
\* the poll thread still holds a session as seen, or candidates of it as
\* seen, after the call has ended
C30_Stale(s) ==
    /\ db[s].status = "ended"
    /\ \/ s \in last_seen_sessions
       \/ last_caller_candidates[s] # {}

C30_Swept(s) ==
    /\ s \notin last_seen_sessions
    /\ last_caller_candidates[s] = {}

\* C30: the signaling component clears its seen bookkeeping once per day:
\* what it holds about a call that has ended, the seen session id and
\* the seen candidate ids, is cleared at some later time
C30_DailySweep == \A s \in Sessions : C30_Stale(s) ~> C30_Swept(s)

\* --------------------------------------------------------------- C31
C31_Factor == resampled.from_rate \div resampled.to_rate

C31_Downsampled ==
    /\ resampled.to_rate # 0
    /\ resampled.from_rate % resampled.to_rate = 0
    /\ C31_Factor > 1

C31_Block(i) ==
    BlockSum(resampled.data, (i - 1) * C31_Factor + 1, C31_Factor)

\* the claim as stated: every output sample is the mean of its block
C31_ExactMean ==
    C31_Downsampled =>
        /\ Len(resampled.out) = Len(resampled.data) \div C31_Factor
        /\ \A i \in 1..Len(resampled.out) :
               C31_Factor * resampled.out[i] = C31_Block(i)

\* C31: resample_audio returns its input unchanged when the two rates are
\* equal; for an integer factor k > 1 the output has the input length
\* divided by k, rounded down, and each output sample is the mean of its
\* block of k input samples with the fraction cut off: k times the sample
\* lies between 0 and the block sum and is less than k away from it
C31_TruncatedMean ==
    /\ resampled.from_rate = resampled.to_rate
           => resampled.out = resampled.data
    /\ C31_Downsampled =>
        /\ Len(resampled.out) = Len(resampled.data) \div C31_Factor
        /\ \A i \in 1..Len(resampled.out) :
             LET scaled == C31_Factor * resampled.out[i]
                 sum == C31_Block(i)
             IN  /\ sum >= 0 => (scaled <= sum /\ sum - scaled < C31_Factor)
                 /\ sum <= 0 => (scaled >= sum /\ scaled - sum < C31_Factor)

\* a downsampling by 3 of four samples: one block with a negative mean
\* that is not an integer, the trailing sample dropped
C31_Witness ==
    /\ C31_Downsampled
    /\ C31_Factor = 3 /\ Len(resampled.data) = 4 /\ Len(resampled.out) = 1
    /\ C31_Block(1) = -4 /\ resampled.out[1] = -1

\* --------------------------------------------------------------- C32
\* C32: no session reset takes place while a user utterance is being
\* recorded: main_async is not inside the reset (between cancelling the
\* reader and the reopened connection) while the recording that sent
\* activityStart is still going on
C32_NoResetInUtterance ==
    mainPc \in {"reset_disconnect", "reset_connect"}
        => ~(is_recording /\ activity.open)

\* --------------------------------------------------------------- C33
\* C33: a call record whose status is ended or rejected keeps that status
\* whatever is written afterwards; stated for the calls the device
\* receives, whose status only accept_call, send_answer and end_call of
\* the device write once the peer has ended them
C33_TerminalStatus ==
    [][ \A s \in Sessions :
            ( /\ db[s].callee = device_id
              /\ db[s].status \in {"ended", "rejected"} )
                => db'[s].status = db[s].status ]_vars

\* --------------------------------------------------------------- C34
\* the session a candidate of the fetched snapshot belongs to
C34_SessionOf(c) ==
    {s \in Sessions : c \in snapshot[s].caller_candidates
                                \cup snapshot[s].callee_candidates}

\* C34: every candidate the poll loop marks as seen while its session is
\* the pending call, the call being accepted or the tracked call is
\* handed to the call manager: an iteration of the poll loop discards no
\* candidate of such a session
C34_NoneDiscarded ==
    [][ \A c \in iceDropped' \ iceDropped :
            \A s \in C34_SessionOf(c) :
                ~( \/ pending_incoming_call = s
                   \/ accepting = s
                   \/ current_session_id = s ) ]_vars

\* --------------------------------------------------------------- C35
\* a run of accept_incoming_call answers the session of the event that
\* scheduled it: the record whose status it writes is the one at the head
\* of the scheduled runs
C35_AnswersOwnEvent ==
    \A s \in Sessions :
        ( /\ Len(statusLog'[s]) > Len(statusLog[s])
          /\ db'[s].status = "answering" )
            => (scheduled # << >> /\ Head(scheduled) = s)

\* the peer connection of a call that is connected and not being torn
\* down stays the manager's connection
C35_KeepsConnection ==
    (is_in_call /\ pc # 0 /\ endPos = "idle") => pc' = pc

\* C35: an incoming-call event during another call's setup or during an
\* active call does not disturb that call: every accept run answers the
\* session whose event scheduled it, and the peer connection of the
\* active call is not replaced without having been closed
C35_CallUndisturbed ==
    [][ C35_AnswersOwnEvent /\ C35_KeepsConnection ]_vars

\* --------------------------------------------------------------- C36
\* the outgoing call exists: a record of the device with its offer
C36_Started == \E s \in Sessions : db[s].caller = device_id /\ db[s].offer

\* a step writes a call record of the device or the offer of one
C36_WritesCall ==
    \E s \in Sessions :
        /\ db'[s].caller = device_id
        /\ \/ db[s].caller # device_id
           \/ db'[s].offer /\ ~db[s].offer

\* C36: videocall_start reports success only with the outgoing call
\* started (record created, offer written), and once it has reported
\* failure no call record and no offer is written for the request
C36_ReportMatchesCall ==
    [][ /\ dial'.reported = "ok" => C36_Started'
        /\ dial.reported = "fail" => ~C36_WritesCall ]_vars

\* --------------------------------------------------------------- C37
\* the reader hands an audio delta of the backend to play_audio_chunk
C37_DeltaHandled ==
    /\ inbox # << >> /\ Head(inbox).type = "audio.delta"
    /\ inbox' = Tail(inbox)

\* C37: with the music player not active and no call going on, the
\* conversation output stream is open whenever an audio delta of the
\* backend is played, whatever made the player stop, the end of the
\* track included
C37_ReplyHeard ==
    [][ ( /\ C37_DeltaHandled
          /\ ~is_music_active
          /\ ~is_in_call /\ pc = 0 )
            => output_stream ]_vars

\* --------------------------------------------------------------- C38
\* the call manager is Idle: no peer connection, no local media, no
\* queued candidate
C38_Idle == pc = 0 /\ ~tracks /\ pendingIce = << >>

\* C38: when a step of accepting an incoming call or of starting an
\* outgoing call fails, the run that returns leaves the call manager Idle
\* and the conversation output stream open
C38_FailureLeavesIdle ==
    [][ failures' # failures => (C38_Idle' /\ output_stream') ]_vars

\* --------------------------------------------------------------- C39
\* the button is released after a recording of less than half a second
C39_ShortRelease ==
    /\ ~pressed /\ is_recording /\ TooShort(chunk_count)
    /\ ~is_recording'

\* C39: the release of a recording shorter than 0.5 s sends no activityEnd
\* (the bracket of the recording is not closed), and audio_input_loop is
\* still running after it, ready for the next press
C39_ShortRecordingDropped ==
    [][ C39_ShortRelease => (activity' = activity /\ inputPc' = "loop") ]_vars

====
